---- MODULE Spec2Model ----
(***************************************************************************)
(* A model of the TikZ geometry pipeline of syn_math:                      *)
(*   - src/tikz_helper.py: the coordinate resolver, the primitive          *)
(*     extractor (parse_tikz_elements), the relationship inference         *)
(*     (compute_geometric_relationships) and the external compile          *)
(*     (compile_tikz_to_png, compile_tikz_with_coords);                    *)
(*   - src/utils/image_processor.py, src/run_geometry_generation.py and    *)
(*     src/generate_from_image.py: the per-document functions and the      *)
(*     batch loops around them.                                            *)
(*                                                                         *)
(* Texts (coordinate strings, radius strings, option values) are sequences *)
(* of one-character strings, so that the regular expressions of the source *)
(* and Python's float() are modelled by what they accept and reject.       *)
(* Numbers are exact rationals [n, d] in lowest terms with d > 0: a        *)
(* decimal literal denotes its decimal value.  Python's binary floats      *)
(* differ from these by rounding errors of relative size 2^-53, which the  *)
(* model does not represent.                                               *)
(***************************************************************************)
EXTENDS Integers, Sequences, FiniteSets, TLC

(***************************************************************************)
(* Exact rational arithmetic                                               *)
(***************************************************************************)
Abs(x) == IF x < 0 THEN -x ELSE x

RECURSIVE Gcd(_, _)
Gcd(a, b) == IF b = 0 THEN a ELSE Gcd(b, a % b)

RatG(n, d, g) == [n |-> (IF d < 0 THEN -n ELSE n) \div g, d |-> Abs(d) \div g]

\* n/d in lowest terms, d # 0
Rat(n, d) == RatG(n, d, Gcd(Abs(n), Abs(d)))

RInt(k) == [n |-> k, d |-> 1]

RNeg(a) == [n |-> -a.n, d |-> a.d]

RAddL(a, b, l) == Rat(a.n * (l \div a.d) + b.n * (l \div b.d), l)

RAdd(a, b) == RAddL(a, b, a.d * (b.d \div Gcd(a.d, b.d)))

RSub(a, b) == RAdd(a, RNeg(b))

RMulG(a, b, g1, g2) == Rat((a.n \div g1) * (b.n \div g2), (a.d \div g2) * (b.d \div g1))

RMul(a, b) == RMulG(a, b, Gcd(Abs(a.n), b.d), Gcd(Abs(b.n), a.d))

RInv(b) == IF b.n < 0 THEN [n |-> -b.d, d |-> -b.n] ELSE [n |-> b.d, d |-> b.n]

RDiv(a, b) == RMul(a, RInv(b))

\* a/b < c/d for a, c >= 0 and b, d > 0, by the Euclidean expansion (no products)
RECURSIVE FracLess(_, _, _, _)
FracLess(a, b, c, d) ==
  IF a \div b # c \div d THEN a \div b < c \div d
  ELSE IF c % d = 0 THEN FALSE
  ELSE IF a % b = 0 THEN TRUE
  ELSE FracLess(d, c % d, b, a % b)

RLess(a, b) ==
  IF a.n < 0 /\ b.n >= 0 THEN TRUE
  ELSE IF a.n >= 0 /\ b.n < 0 THEN FALSE
  ELSE IF a.n >= 0 THEN FracLess(a.n, a.d, b.n, b.d)
  ELSE FracLess(-b.n, b.d, -a.n, a.d)

RLeq(a, b) == ~RLess(b, a)

RSq(a) == RMul(a, a)

RAbs(a) == [n |-> Abs(a.n), d |-> a.d]

\* squared Euclidean distance of two positions <<x, y>>
Dist2(p, q) == RAdd(RSq(RSub(p[1], q[1])), RSq(RSub(p[2], q[2])))

(***************************************************************************)
(* Texts and the character classes of the regular expressions              *)
(***************************************************************************)
Digits == {"0", "1", "2", "3", "4", "5", "6", "7", "8", "9"}

\* the class [\d.] of parse_tikz_scale, parse_radius and the size patterns
UnsignedChars == Digits \cup {"."}

\* the class [-\d.] of parse_coordinate (and [\d.-] of the arc options)
NumChars == Digits \cup {".", "-"}

Space == {" "}

DigitVal(c) ==
  CASE c = "0" -> 0 [] c = "1" -> 1 [] c = "2" -> 2 [] c = "3" -> 3
    [] c = "4" -> 4 [] c = "5" -> 5 [] c = "6" -> 6 [] c = "7" -> 7
    [] c = "8" -> 8 [] c = "9" -> 9

RECURSIVE PrefixLen(_, _)
PrefixLen(s, class) ==
  IF s = <<>> \/ Head(s) \notin class THEN 0
  ELSE 1 + PrefixLen(Tail(s), class)

Drop(s, k) == SubSeq(s, k + 1, Len(s))

Take(s, k) == SubSeq(s, 1, k)

RECURSIVE RStrip(_)
RStrip(s) ==
  IF s # <<>> /\ s[Len(s)] \in Space THEN RStrip(Take(s, Len(s) - 1)) ELSE s

\* the \s* of the patterns
AfterSpaces(s) == Drop(s, PrefixLen(s, Space))

\* str.strip()
Strip(s) == RStrip(AfterSpaces(s))

CountOf(s, class) == Cardinality({i \in 1..Len(s) : s[i] \in class})

\* substring test: sub in s
Contains(s, sub) ==
  \E i \in 0..(Len(s) - Len(sub)) : SubSeq(s, i + 1, i + Len(sub)) = sub

(***************************************************************************)
(* Python float(text) on the alphabet of signs, digits and '.': it accepts *)
(* [sign] digits [. [digits]] and [sign] . digits (surrounding blanks are  *)
(* stripped) and raises ValueError on everything else.  The exponent,      *)
(* inf/nan and underscore forms need letters or '_' and are outside the    *)
(* texts the model draws.                                                  *)
(***************************************************************************)
\* a stripped text without its sign
FloatBody(t) == IF t # <<>> /\ Head(t) \in {"+", "-"} THEN Tail(t) ELSE t

IsFloatBody(b) ==
  /\ b # <<>>
  /\ \A i \in 1..Len(b) : b[i] \in UnsignedChars
  /\ CountOf(b, {"."}) <= 1
  /\ CountOf(b, Digits) >= 1

\* float(s) returns a value
IsFloat(s) == IsFloatBody(FloatBody(Strip(s)))

RECURSIVE DigitsVal(_)
DigitsVal(s) ==
  IF s = <<>> THEN 0 ELSE 10 * DigitsVal(Take(s, Len(s) - 1)) + DigitVal(s[Len(s)])

RECURSIVE Pow10(_)
Pow10(k) == IF k = 0 THEN 1 ELSE 10 * Pow10(k - 1)

MagOf(ipart, frac) ==
  Rat(DigitsVal(ipart) * Pow10(Len(frac)) + DigitsVal(frac), Pow10(Len(frac)))

BodyVal(b, ip) == MagOf(Take(b, ip), IF ip < Len(b) THEN Drop(b, ip + 1) ELSE <<>>)

UnsignedVal(b) == BodyVal(b, PrefixLen(b, Digits))

TextVal(t) ==
  IF Head(t) = "-" THEN RNeg(UnsignedVal(FloatBody(t))) ELSE UnsignedVal(FloatBody(t))

\* the value float(s) returns when IsFloat(s)
FloatVal(s) == TextVal(Strip(s))

\* results of partial operations: a value, None, or a propagating ValueError
Ok(v) == [tag |-> "ok", v |-> v]

None == [tag |-> "none", v |-> <<>>]

Raise == [tag |-> "raise", v |-> <<>>]

\* float(s)
ToFloat(s) == IF IsFloat(s) THEN Ok(FloatVal(s)) ELSE Raise

(***************************************************************************)
(* The source text.  A document (tikz_code) is a sequence of statements;   *)
(* a statement records which statement pattern of the source it has and    *)
(* the texts that pattern captures:                                        *)
(*   begin        \begin{tikzpicture}[scale=<scale>]                       *)
(*   coordinate   \coordinate (<name>) at (<at>);                          *)
(*   coordinate_opts, node_named, node_named_opts: the other three         *)
(*                declaration forms of extract_named_coordinates           *)
(*   def          \def\<name>{<value>}    newcommand  \newcommand{..}{..}  *)
(*   draw_circle  \draw (<center>) circle (<radius>);                      *)
(*   draw_path    \draw (<coords[1]>) -- (<coords[2]>) -- ... [-- cycle];  *)
(*   fill         \fill (<pos>) circle (<size>);                           *)
(*   filldraw     \filldraw (<pos>) circle (<size>);                       *)
(*   arc          \draw (<start>) arc (<sa>:<ea>:<radius>);                *)
(*   arc_opts     \draw (<start>) arc [start angle=<sa>, end angle=<ea>,   *)
(*                radius=<radius>];  (an empty text: the option is absent) *)
(***************************************************************************)
SetMin(S) == CHOOSE x \in S : \A y \in S : x <= y

\* the begin statements whose options hold "scale=" followed by [\d.]+
ScaleHits(code) ==
  {i \in 1..Len(code) : code[i].k = "begin" /\ PrefixLen(code[i].scale, UnsignedChars) > 0}

ScaleGroup(t) == Take(t, PrefixLen(t, UnsignedChars))

\* re.search(r'\\begin\{tikzpicture\}\s*\[\s*[^\]]*scale\s*=\s*([\d.]+)'): the
\* first match, then float(group 1); 1.0 without a match
parse_tikz_scale(code) ==
  IF ScaleHits(code) = {} THEN Ok(RInt(1))
  ELSE ToFloat(ScaleGroup(code[SetMin(ScaleHits(code))].scale))

\* what follows the comma of a pair (nothing when there is no comma)
AfterComma(r) == IF r # <<>> /\ Head(r) = "," THEN AfterSpaces(Tail(r)) ELSE <<>>

NumericGroups(g1, g2) ==
  IF g1 # <<>> /\ g2 # <<>> /\ PrefixLen(g2, NumChars) = Len(g2) THEN <<g1, g2>> ELSE <<>>

NumericSplit(s, n1) == NumericGroups(Take(s, n1), AfterComma(AfterSpaces(Drop(s, n1))))

\* re.match(r'^([-\d.]+)\s*,\s*([-\d.]+)$'): the two groups, or <<>> when the
\* text does not match
NumericMatch(s) == NumericSplit(s, PrefixLen(s, NumChars))

\* (float(group 1), float(group 2)) of a match, None without a match
NumericCoord(m) ==
  IF m = <<>> THEN None
  ELSE IF IsFloat(m[1]) /\ IsFloat(m[2]) THEN Ok(<<FloatVal(m[1]), FloatVal(m[2])>>)
  ELSE Raise

ParseStripped(s, table) ==
  IF DOMAIN table # {} /\ s \in DOMAIN table THEN Ok(table[s])
  ELSE NumericCoord(NumericMatch(s))

\* a symbol table is a function from names (texts) to positions
parse_coordinate(coord_str, table) == ParseStripped(Strip(coord_str), table)

NoTable == <<>>

NamedPut(acc, name, coord) ==
  IF coord.tag = "raise" THEN Raise
  ELSE IF coord.tag = "ok" THEN Ok((name :> coord.v) @@ acc.v)
  ELSE acc

\* one finditer loop of extract_named_coordinates over the statements of one
\* declaration form, from statement i on; a ValueError ends the extraction
RECURSIVE NamedPass(_, _, _, _)
NamedPass(code, kind, i, acc) ==
  IF acc.tag = "raise" \/ i > Len(code) THEN acc
  ELSE NamedPass(code, kind, i + 1,
         IF code[i].k = kind
         THEN NamedPut(acc, Strip(code[i].name), parse_coordinate(Strip(code[i].at), NoTable))
         ELSE acc)

extract_named_coordinates(code) ==
  NamedPass(code, "node_named_opts", 1,
    NamedPass(code, "node_named", 1,
      NamedPass(code, "coordinate_opts", 1,
        NamedPass(code, "coordinate", 1, Ok(NoTable)))))

RECURSIVE MacroPass(_, _, _, _)
MacroPass(code, kind, i, mtab) ==
  IF i > Len(code) THEN mtab
  ELSE MacroPass(code, kind, i + 1,
         IF code[i].k = kind
         THEN (Strip(code[i].name) :> Strip(code[i].value)) @@ mtab
         ELSE mtab)

extract_latex_macros(code) ==
  MacroPass(code, "newcommand", 1, MacroPass(code, "def", 1, NoTable))

MacroValue(s, mtab) ==
  IF s # <<>> /\ Head(s) = "\\" /\ Tail(s) \in DOMAIN mtab THEN mtab[Tail(s)] ELSE s

resolve_macro(value_str, mtab) == MacroValue(Strip(value_str), mtab)

ResolveOr(coord, coord_str, table) ==
  IF coord.tag # "none" THEN coord
  ELSE IF coord_str \in DOMAIN table THEN Ok(table[coord_str])
  ELSE None

resolve_coord(coord_str, table) ==
  ResolveOr(parse_coordinate(coord_str, table), coord_str, table)

(***************************************************************************)
(* Lengths with units                                                      *)
(***************************************************************************)
\* 1cm = 28.45pt
PtPerCm == Rat(2845, 100)

MmPerCm == RInt(10)

\* 1mm = 2.845pt
PtPerMm == Rat(2845, 1000)

UnitTexts == {<<"c", "m">>, <<"p", "t">>, <<"m", "m">>}

LengthGroups(g, u) == IF g # <<>> /\ (u = <<>> \/ u \in UnitTexts) THEN <<g, u>> ELSE <<>>

LengthSplit(s, n1) == LengthGroups(Take(s, n1), AfterSpaces(Drop(s, n1)))

\* re.match(r'^([\d.]+)\s*(cm|pt|mm)?$'): <<number text, unit text>> or <<>>
LengthMatch(s) == LengthSplit(s, PrefixLen(s, UnsignedChars))

\* the unit conversion shared by parse_radius and the two arc forms
ToCm(value, unit) ==
  IF unit = <<"p", "t">> THEN RDiv(value, PtPerCm)
  ELSE IF unit = <<"m", "m">> THEN RDiv(value, MmPerCm)
  ELSE value

LengthOf(s, m, fallback) ==
  IF m # <<>>
  THEN (IF IsFloat(m[1]) THEN Ok(ToCm(FloatVal(m[1]), m[2])) ELSE Raise)
  ELSE IF IsFloat(s) THEN Ok(FloatVal(s))
  ELSE Ok(fallback)

\* the length a radius text denotes; when neither the pattern nor float()
\* accepts it, the fallback the caller names
LengthOr(s, fallback) == LengthOf(s, LengthMatch(s), fallback)

DefaultRadius == RInt(1)

parse_radius(radius_str, mtab) == LengthOr(resolve_macro(radius_str, mtab), DefaultRadius)

DefaultArcRadius == Rat(1, 2)

\* arc form 1 parses its radius itself: no macro substitution, default 0.5
arc_radius(radius_str) == LengthOr(radius_str, DefaultArcRadius)

DefaultPointSize == RInt(2)

SizeOf(m) ==
  IF m = <<>> THEN Ok(DefaultPointSize)
  ELSE IF ~IsFloat(m[1]) THEN Raise
  ELSE IF m[2] = <<"c", "m">> THEN Ok(RMul(FloatVal(m[1]), PtPerCm))
  ELSE IF m[2] = <<"m", "m">> THEN Ok(RMul(FloatVal(m[1]), PtPerMm))
  ELSE Ok(FloatVal(m[1]))

\* display size of a filled point, in pt
point_size(size_str) == SizeOf(LengthMatch(size_str))

(***************************************************************************)
(* The extraction loops of parse_tikz_elements.  The list built so far is  *)
(* Ok(list); a float() that raises ValueError inside a loop turns it into  *)
(* Raise, which ends the function.                                         *)
(***************************************************************************)
CirclePut(acc, center, radius) ==
  IF center.tag = "raise" \/ radius.tag = "raise" THEN Raise
  ELSE IF center.tag = "ok" THEN Ok(Append(acc.v, [center |-> center.v, radius |-> radius.v]))
  ELSE acc

\* circles: \draw ... (center) circle (radius)
RECURSIVE CirclePass(_, _, _, _, _)
CirclePass(code, i, table, mtab, acc) ==
  IF acc.tag = "raise" \/ i > Len(code) THEN acc
  ELSE CirclePass(code, i + 1, table, mtab,
         IF code[i].k = "draw_circle"
         THEN CirclePut(acc, resolve_coord(Strip(code[i].center), table),
                        parse_radius(Strip(code[i].radius), mtab))
         ELSE acc)

\* the parenthesised texts of a draw statement that are options or node content
SkippedToken(p) ==
  \/ \E j \in 1..Len(p) : p[j] = "="
  \/ (p # <<>> /\ Head(p) = "[")
  \/ Contains(p, <<"n", "o", "d", "e">>)

CoordPut(acc, coord) ==
  IF coord.tag = "raise" THEN Raise
  ELSE IF coord.tag = "ok" THEN Ok(Append(acc.v, coord.v))
  ELSE acc

\* the resolved points of one draw statement: unresolved ones are left out
RECURSIVE ResolvePoints(_, _, _, _)
ResolvePoints(ps, j, table, acc) ==
  IF acc.tag = "raise" \/ j > Len(ps) THEN acc
  ELSE ResolvePoints(ps, j + 1, table,
         IF SkippedToken(ps[j]) THEN acc ELSE CoordPut(acc, resolve_coord(ps[j], table)))

\* one segment per consecutive pair, and the closing one of a cycle
PathSegments(rp, cycle) ==
  [j \in 1..(Len(rp) - 1) |-> [start |-> rp[j], end |-> rp[j + 1]]]
    \o (IF cycle /\ Len(rp) >= 3
        THEN <<[start |-> rp[Len(rp)], end |-> rp[1]]>>
        ELSE <<>>)

LinePut(acc, rp, cycle) ==
  IF rp.tag = "raise" THEN Raise ELSE Ok(acc.v \o PathSegments(rp.v, cycle))

RECURSIVE LinePass(_, _, _, _)
LinePass(code, i, table, acc) ==
  IF acc.tag = "raise" \/ i > Len(code) THEN acc
  ELSE LinePass(code, i + 1, table,
         IF code[i].k = "draw_path"
         THEN LinePut(acc, ResolvePoints(code[i].coords, 1, table, Ok(<<>>)), code[i].cycle)
         ELSE acc)

\* r'\\fill[^;]*\(...\)\s*circle\s*\(...\)' also matches a \filldraw statement
\* ("\fill" followed by "draw ..."); the second pattern matches \filldraw only
FillPattern == {"fill", "filldraw"}

FilldrawPattern == {"filldraw"}

PointPut(acc, pos, size) ==
  IF pos.tag = "raise" \/ size.tag = "raise" THEN Raise
  ELSE IF pos.tag = "ok" THEN Ok(Append(acc.v, [position |-> pos.v, size |-> size.v]))
  ELSE acc

RECURSIVE PointPass(_, _, _, _, _)
PointPass(code, kinds, i, table, acc) ==
  IF acc.tag = "raise" \/ i > Len(code) THEN acc
  ELSE PointPass(code, kinds, i + 1, table,
         IF code[i].k \in kinds
         THEN PointPut(acc, resolve_coord(Strip(code[i].pos), table),
                       point_size(Strip(code[i].size)))
         ELSE acc)

\* cos and sin of an angle in degrees, exact at the multiples of 90 (the only
\* angles the documents of the model use)
Quadrant(deg) == ((deg.n % 360) + 360) % 360

CosDeg(deg) ==
  CASE Quadrant(deg) = 0 -> RInt(1) [] Quadrant(deg) = 90 -> RInt(0)
    [] Quadrant(deg) = 180 -> RInt(-1) [] Quadrant(deg) = 270 -> RInt(0)

SinDeg(deg) ==
  CASE Quadrant(deg) = 0 -> RInt(0) [] Quadrant(deg) = 90 -> RInt(1)
    [] Quadrant(deg) = 180 -> RInt(0) [] Quadrant(deg) = 270 -> RInt(-1)

\* the arc record: the center is the start point moved back along the start angle
ArcRecord(start_pos, radius, start_angle, end_angle) ==
  [center      |-> <<RSub(start_pos[1], RMul(radius, CosDeg(start_angle))),
                     RSub(start_pos[2], RMul(radius, SinDeg(start_angle)))>>,
   radius      |-> radius,
   start_angle |-> start_angle,
   end_angle   |-> end_angle]

AllDigits(s) == s # <<>> /\ \A j \in 1..Len(s) : s[j] \in Digits

ArcPut(acc, start_pos, radius, start_angle, end_angle) ==
  IF start_pos.tag = "raise" \/ radius.tag = "raise" THEN Raise
  ELSE IF start_pos.tag = "ok"
  THEN Ok(Append(acc.v, ArcRecord(start_pos.v, radius.v, start_angle, end_angle)))
  ELSE acc

\* arc form 1: (start) arc (sa:ea:radius), the angles matched by \d+
RECURSIVE ArcPass(_, _, _, _)
ArcPass(code, i, table, acc) ==
  IF acc.tag = "raise" \/ i > Len(code) THEN acc
  ELSE ArcPass(code, i + 1, table,
         IF code[i].k = "arc" /\ AllDigits(code[i].sa) /\ AllDigits(code[i].ea)
         THEN ArcPut(acc, resolve_coord(Strip(code[i].start), table),
                     arc_radius(Strip(code[i].radius)),
                     FloatVal(code[i].sa), FloatVal(code[i].ea))
         ELSE acc)

OptionValue(g) == IF g = <<>> THEN None ELSE ToFloat(g)

\* re.search(r'...=\s*([\d.-]+)') on an option value, then float(group 1):
\* None when the option is absent or starts with no character of the class
OptionNumber(value, class) == OptionValue(Take(value, PrefixLen(value, class)))

UnitPrefix(r) == IF Len(r) >= 2 /\ Take(r, 2) \in UnitTexts THEN Take(r, 2) ELSE <<>>

\* radius=<number><unit>: the unit is read after the number, unanchored
OptionUnit(value) == UnitPrefix(AfterSpaces(Drop(value, PrefixLen(value, UnsignedChars))))

OptionRadiusOf(r_match, unit) ==
  IF r_match.tag = "ok" THEN Ok(ToCm(r_match.v, unit)) ELSE r_match

OptionRadius(value) == OptionRadiusOf(OptionNumber(value, UnsignedChars), OptionUnit(value))

\* "radius" is tested for truth: None and 0.0 both leave the arc out
ArcOptionsPut(acc, start_pos, start_angle, end_angle, radius) ==
  IF "raise" \in {start_pos.tag, start_angle.tag, end_angle.tag, radius.tag} THEN Raise
  ELSE IF {start_pos.tag, start_angle.tag, end_angle.tag, radius.tag} = {"ok"} /\ radius.v.n # 0
  THEN Ok(Append(acc.v, ArcRecord(start_pos.v, radius.v, start_angle.v, end_angle.v)))
  ELSE acc

\* arc form 2: (start) arc [start angle=.., end angle=.., radius=..]
RECURSIVE ArcOptionsPass(_, _, _, _)
ArcOptionsPass(code, i, table, acc) ==
  IF acc.tag = "raise" \/ i > Len(code) THEN acc
  ELSE ArcOptionsPass(code, i + 1, table,
         IF code[i].k = "arc_opts"
         THEN ArcOptionsPut(acc, resolve_coord(Strip(code[i].start), table),
                            OptionNumber(code[i].sa, NumChars),
                            OptionNumber(code[i].ea, NumChars),
                            OptionRadius(code[i].radius))
         ELSE acc)

(***************************************************************************)
(* Post-processing: deduplication and the short-segment filter             *)
(***************************************************************************)
\* the integer nearest to n/d (d > 0), an exact tie going to the even one
RoundHalfEven(n, d) ==
  IF 2 * (n % d) < d THEN n \div d
  ELSE IF 2 * (n % d) > d THEN (n \div d) + 1
  ELSE IF (n \div d) % 2 = 0 THEN n \div d
  ELSE (n \div d) + 1

RoundOf(y) == Rat(RoundHalfEven(y.n, y.d), 1000)

\* round(x, 3): the nearest multiple of 0.001, an exact tie going to the even
\* one.  A decimal literal ...5 in the fourth place is an exact tie only when
\* it is a binary fraction (0.0625); other such literals round as their double
\* lies, and the documents of the model do not use them.
Round3(x) == RoundOf(RMul(x, RInt(1000)))

pos_key(pos) == <<Round3(pos[1]), Round3(pos[2])>>

UniquePut(point, key, state) ==
  IF key \in state.seen_positions THEN state
  ELSE [seen_positions |-> state.seen_positions \cup {key},
        unique_points  |-> Append(state.unique_points, point)]

\* keep a point unless an earlier one has the same rounded position
RECURSIVE UniquePass(_, _, _)
UniquePass(points, i, state) ==
  IF i > Len(points) THEN state
  ELSE UniquePass(points, i + 1, UniquePut(points[i], pos_key(points[i].position), state))

unique_points(points) ==
  UniquePass(points, 1, [seen_positions |-> {}, unique_points |-> <<>>]).unique_points

MIN_LINE_LENGTH == Rat(3, 10)

\* a variant of the filter that also drops a segment of length exactly 0.3
LongEnoughStrict(line) == RLess(RSq(MIN_LINE_LENGTH), Dist2(line.start, line.end))

\* length >= MIN_LINE_LENGTH, on the squares
LongEnough(line) == RLeq(RSq(MIN_LINE_LENGTH), Dist2(line.start, line.end))

filtered_lines(lines) == SelectSeq(lines, LongEnough)

(***************************************************************************)
(* Relationship inference                                                  *)
(***************************************************************************)
Tolerance == Rat(15, 100)

\* lo < dist < hi, on the square of dist
InBand(dist2, lo, hi) ==
  /\ (RLess(lo, RInt(0)) \/ RLess(RSq(lo), dist2))
  /\ RLess(RInt(0), hi)
  /\ RLess(dist2, RSq(hi))

WithinMargin(dist2, radius, e) ==
  RLess(RInt(0), e) /\ InBand(dist2, RSub(radius, e), RAdd(radius, e))

\* a variant of the test with three times the margin
OnCircleWide(dist2, radius, tolerance) ==
  WithinMargin(dist2, radius, RMul(radius, RMul(tolerance, RInt(3))))

\* abs(dist - radius) < radius * tolerance, with dist2 the square of dist
OnCircle(dist2, radius, tolerance) == WithinMargin(dist2, radius, RMul(radius, tolerance))

\* all index pairs <<i, j>>, i the outer loop and j the inner one
Pairs(n, m) == [k \in 1..(n * m) |-> <<((k - 1) \div m) + 1, ((k - 1) % m) + 1>>]

\* line_len < 1e-6, on the square of the length
Degenerate(len2) ==
  /\ RLess(len2, RInt(1))
  /\ RLess(RMul(len2, RInt(1000000)), Rat(1, 1000000))

\* px * dx + py * dy
Dot(pos, line) ==
  RAdd(RMul(RSub(pos[1], line.start[1]), RSub(line.end[1], line.start[1])),
       RMul(RSub(pos[2], line.start[2]), RSub(line.end[2], line.start[2])))

\* px * dy - py * dx
Cross(pos, line) ==
  RSub(RMul(RSub(pos[1], line.start[1]), RSub(line.end[2], line.start[2])),
       RMul(RSub(pos[2], line.start[2]), RSub(line.end[1], line.start[1])))

\* the projection parameter t of pos on the line through start and end
ParamT(pos, line) == RDiv(Dot(pos, line), Dist2(line.start, line.end))

NearAt(pos, line, tolerance, len2, t) ==
  IF RLeq(t, RInt(0)) THEN RLess(Dist2(pos, line.start), RMul(len2, RSq(tolerance)))
  ELSE IF RLeq(RInt(1), t) THEN RLess(Dist2(pos, line.end), RMul(len2, RSq(tolerance)))
  ELSE RLess(RAbs(Cross(pos, line)), RMul(len2, tolerance))

\* a variant that measures the distance to the infinite line
NearLine(pos, line, tolerance) ==
  RLess(RAbs(Cross(pos, line)), RMul(Dist2(line.start, line.end), tolerance))

\* dist < line_len * tolerance, dist the distance from pos to the closest point
\* start + t_clamped * (dx, dy) of the segment.  For 0 < t < 1 the closest point
\* is the foot of the perpendicular and dist = |px*dy - py*dx| / line_len; for
\* t <= 0 it is start and for t >= 1 it is end.
NearSegment(pos, line, tolerance) ==
  NearAt(pos, line, tolerance, Dist2(line.start, line.end), ParamT(pos, line))

position_on_line(t, tolerance) ==
  IF RLess(t, tolerance) THEN "start"
  ELSE IF RLess(RSub(RInt(1), tolerance), t) THEN "end"
  ELSE "middle"

\* a variant that records every match under the first circle
CircleRecordFirst(pi, ci, point, circle, dist2) ==
  [point_idx           |-> pi - 1,
   circle_idx          |-> 0,
   point_pos           |-> point.position,
   circle_center       |-> circle.center,
   distance_to_center2 |-> dist2,
   circle_radius       |-> circle.radius]

\* indexes are 0-based as in the source; distance_to_center is kept squared
CircleRecord(pi, ci, point, circle, dist2) ==
  [point_idx           |-> pi - 1,
   circle_idx          |-> ci - 1,
   point_pos           |-> point.position,
   circle_center       |-> circle.center,
   distance_to_center2 |-> dist2,
   circle_radius       |-> circle.radius]

CircleHit(point, circle, tolerance) ==
  OnCircle(Dist2(point.position, circle.center), circle.radius, tolerance)

CircleRecords(points, circles, hits) ==
  [k \in 1..Len(hits) |->
     CircleRecord(hits[k][1], hits[k][2], points[hits[k][1]], circles[hits[k][2]],
                  Dist2(points[hits[k][1]].position, circles[hits[k][2]].center))]

points_on_circles(points, circles, tolerance) ==
  CircleRecords(points, circles,
    SelectSeq(Pairs(Len(points), Len(circles)),
              LAMBDA pr : CircleHit(points[pr[1]], circles[pr[2]], tolerance)))

\* a variant that stores the clamped parameter
LineRecordClamped(pi, li, point, line, tolerance, t) ==
  [point_idx        |-> pi - 1,
   line_idx         |-> li - 1,
   point_pos        |-> point.position,
   line_start       |-> line.start,
   line_end         |-> line.end,
   position_on_line |-> position_on_line(t, tolerance),
   parameter_t      |-> IF RLess(t, RInt(0)) THEN RInt(0)
                        ELSE IF RLess(RInt(1), t) THEN RInt(1) ELSE t]

LineRecord(pi, li, point, line, tolerance, t) ==
  [point_idx        |-> pi - 1,
   line_idx         |-> li - 1,
   point_pos        |-> point.position,
   line_start       |-> line.start,
   line_end         |-> line.end,
   position_on_line |-> position_on_line(t, tolerance),
   parameter_t      |-> t]

LineHit(point, line, tolerance) ==
  /\ ~Degenerate(Dist2(line.start, line.end))
  /\ NearSegment(point.position, line, tolerance)

LineRecords(points, lines, tolerance, hits) ==
  [k \in 1..Len(hits) |->
     LineRecord(hits[k][1], hits[k][2], points[hits[k][1]], lines[hits[k][2]], tolerance,
                ParamT(points[hits[k][1]].position, lines[hits[k][2]]))]

points_on_lines(points, lines, tolerance) ==
  LineRecords(points, lines, tolerance,
    SelectSeq(Pairs(Len(points), Len(lines)),
              LAMBDA pr : LineHit(points[pr[1]], lines[pr[2]], tolerance)))

compute_geometric_relationships(elems, tolerance) ==
  [points_on_circles |-> points_on_circles(elems.points, elems.circles, tolerance),
   points_on_lines   |-> points_on_lines(elems.points, elems.lines, tolerance)]

(***************************************************************************)
(* Labels.  The label dict is a sequence of entries [coord, label] in      *)
(* insertion order (the order a Python dict iterates in); a label is a     *)
(* text.                                                                   *)
(***************************************************************************)
LabelTolerance == Rat(1, 100)

NearLabel(coord, point_pos, tolerance) ==
  /\ RLess(RAbs(RSub(coord[1], point_pos[1])), tolerance)
  /\ RLess(RAbs(RSub(coord[2], point_pos[2])), tolerance)

FirstLabel(table, hits) == IF hits = {} THEN None ELSE Ok(table[SetMin(hits)].label)

\* the label of the first entry within the tolerance on both axes, or None
get_point_label(point_pos, table) ==
  FirstLabel(table, {k \in 1..Len(table) : NearLabel(table[k].coord, point_pos, LabelTolerance)})

\* a label is tested for truth: None and the empty text are both false
Truthy(found) == found.tag = "ok" /\ found.v # <<>>

\* found or placeholder
LabelOr(found, placeholder) == IF Truthy(found) THEN found.v ELSE placeholder

DigitText == <<"0", "1", "2", "3", "4", "5", "6", "7", "8", "9">>

RECURSIVE IntText(_)
IntText(n) ==
  IF n < 10 THEN <<DigitText[n + 1]>> ELSE IntText(n \div 10) \o <<DigitText[(n % 10) + 1]>>

\* f"P{i}", f"C{i}"
Placeholder(letter, i) == <<letter>> \o IntText(i)

RECURSIVE Flatten(_)
Flatten(lists) == IF lists = <<>> THEN <<>> ELSE Head(lists) \o Flatten(Tail(lists))

LinePrefix == <<"L", "i", "n", "e", "_">>

(***************************************************************************)
(* extract_point_labels.  A fill or filldraw statement may carry a node    *)
(* text (\fill (<pos>) circle (<size>) node[..] {$<node>$};, an empty text *)
(* when it has no node), and a node statement is a standalone label        *)
(* \node at (<at>) {$<label>$};                                            *)
(***************************************************************************)
Letters ==
  { "A", "B", "C", "D", "E", "F", "G", "H", "I", "J", "K", "L", "M", "N", "O", "P", "Q", "R",
    "S", "T", "U", "V", "W", "X", "Y", "Z", "a", "b", "c", "d", "e", "f", "g", "h", "i", "j",
    "k", "l", "m", "n", "o", "p", "q", "r", "s", "t", "u", "v", "w", "x", "y", "z" }

\* \{\$?([A-Za-z0-9]+)\$?\} matches the node text
AttachedLabel(node) == node # <<>> /\ \A j \in 1..Len(node) : node[j] \in Letters \cup Digits

\* \{\$?([A-Za-z])\$?\} matches the label of a node statement
StandaloneLabel(label) == Len(label) = 1 /\ label[1] \in Letters

\* a variant in which the coordinate text of a label never matches
LabelCoordUnmatched(coord_str) == None

\* re.match(r'^([-\d.]+)\s*,\s*([-\d.]+)$', coord_str), then the two float()
LabelCoord(coord_str) == NumericCoord(NumericMatch(Strip(coord_str)))

\* labels[coord] = label: a new key is appended, a known key keeps its place
SetLabel(table, coord, label) ==
  IF \E k \in 1..Len(table) : table[k].coord = coord
  THEN [k \in 1..Len(table) |->
          IF table[k].coord = coord THEN [coord |-> table[k].coord, label |-> label]
          ELSE table[k]]
  ELSE Append(table, [coord |-> coord, label |-> label])

LabelPut(acc, coord, label) ==
  IF coord.tag = "raise" THEN Raise
  ELSE IF coord.tag = "ok" THEN Ok(SetLabel(acc.v, coord.v, label))
  ELSE acc

\* patterns 1 and 2: the fill (filldraw) statements with an attached node
RECURSIVE AttachedPass(_, _, _, _)
AttachedPass(code, kinds, i, acc) ==
  IF acc.tag = "raise" \/ i > Len(code) THEN acc
  ELSE AttachedPass(code, kinds, i + 1,
         IF code[i].k \in kinds /\ AttachedLabel(code[i].node)
         THEN LabelPut(acc, LabelCoord(code[i].pos), Strip(code[i].node))
         ELSE acc)

\* pattern 3: \coordinate (label) at (x,y)
RECURSIVE DeclaredPass(_, _, _)
DeclaredPass(code, i, acc) ==
  IF acc.tag = "raise" \/ i > Len(code) THEN acc
  ELSE DeclaredPass(code, i + 1,
         IF code[i].k = "coordinate"
         THEN LabelPut(acc, LabelCoord(code[i].at), Strip(code[i].name))
         ELSE acc)

ListPut(acc, coord, entry) ==
  IF coord.tag = "raise" THEN Raise
  ELSE IF coord.tag = "ok" THEN Ok(Append(acc.v, entry))
  ELSE acc

\* pattern 4: the standalone labels, in source order
RECURSIVE StandalonePass(_, _, _)
StandalonePass(code, i, acc) ==
  IF acc.tag = "raise" \/ i > Len(code) THEN acc
  ELSE StandalonePass(code, i + 1,
         IF code[i].k = "node" /\ StandaloneLabel(code[i].label)
         THEN ListPut(acc, LabelCoord(code[i].at),
                      [coord |-> LabelCoord(code[i].at).v, label |-> code[i].label])
         ELSE acc)

FillPointPut(acc, coord, table) ==
  IF coord.tag = "raise" THEN Raise
  ELSE IF coord.tag = "ok" /\ ~\E k \in 1..Len(table) : table[k].coord = coord.v
  THEN Ok(Append(acc.v, coord.v))
  ELSE acc

\* pattern 5: the filled points whose position is not a key of the dict
RECURSIVE FillPointPass(_, _, _, _)
FillPointPass(code, i, table, acc) ==
  IF acc.tag = "raise" \/ i > Len(code) THEN acc
  ELSE FillPointPass(code, i + 1, table,
         IF code[i].k \in FillPattern THEN FillPointPut(acc, LabelCoord(code[i].pos), table)
         ELSE acc)

label_match_tolerance == Rat(1, 2)

\* the points the loop of lines 441-445 can end on: within the tolerance, and
\* no other point is nearer or equally near and earlier
BestPoints(fill_points, label_coord) ==
  {k \in 1..Len(fill_points) :
     /\ RLess(Dist2(fill_points[k], label_coord), RSq(label_match_tolerance))
     /\ \A j \in 1..Len(fill_points) :
          \/ RLess(Dist2(fill_points[k], label_coord), Dist2(fill_points[j], label_coord))
          \/ (j >= k /\ Dist2(fill_points[k], label_coord) = Dist2(fill_points[j], label_coord))}

Without(list, k) == Take(list, k - 1) \o Drop(list, k)

\* labels[best_point] = label; fill_points.remove(best_point)
Assign(state, best, label) ==
  IF best = {} THEN state
  ELSE [table       |-> SetLabel(state.table, state.fill_points[SetMin(best)], label),
        fill_points |-> Without(state.fill_points, SetMin(best))]

\* lines 438-448: each standalone label in source order takes the nearest
\* filled point that is still unmatched
RECURSIVE MatchPass(_, _, _)
MatchPass(standalone_labels, i, state) ==
  IF i > Len(standalone_labels) THEN state
  ELSE MatchPass(standalone_labels, i + 1,
         Assign(state, BestPoints(state.fill_points, standalone_labels[i].coord),
                standalone_labels[i].label))

MatchLabels(table, standalone_labels, fill_points) ==
  IF standalone_labels.tag = "raise" \/ fill_points.tag = "raise" THEN Raise
  ELSE Ok(MatchPass(standalone_labels.v, 1,
                    [table |-> table.v, fill_points |-> fill_points.v]).table)

LabelsFrom(code, table) ==
  IF table.tag = "raise" THEN Raise
  ELSE MatchLabels(table, StandalonePass(code, 1, Ok(<<>>)),
                   FillPointPass(code, 1, table.v, Ok(<<>>)))

extract_point_labels(code) ==
  LabelsFrom(code,
    DeclaredPass(code, 1,
      AttachedPass(code, FilldrawPattern, 1,
        AttachedPass(code, FillPattern, 1, Ok(<<>>)))))

(***************************************************************************)
(* split_lines_at_labeled_points                                           *)
(***************************************************************************)
\* position_type == "middle" and 0.01 < t < 0.99
Interior(pol) ==
  /\ pol.position_on_line = "middle"
  /\ RLess(Rat(1, 100), pol.parameter_t)
  /\ RLess(pol.parameter_t, Rat(99, 100))

\* the keys of a grouping dict in insertion order: the value of field idx of
\* the records that are the first with that value
GroupKeys(recs, idx) ==
  SelectSeq([k \in 1..Len(recs) |-> IF \E j \in 1..(k - 1) : recs[j][idx] = recs[k][idx]
                                    THEN -1 ELSE recs[k][idx]],
            LAMBDA key : key >= 0)

\* a variant that compares the label of the point with the start label only
SameAsStart(point_label, start_label, end_label) == point_label = start_label

\* point_label == start_label or point_label == end_label
SameAsEndpoint(point_label, start_label, end_label) ==
  point_label = start_label \/ point_label = end_label

SubSegment(start, end, label1, label2, parent) ==
  [start        |-> start,
   end          |-> end,
   point1_label |-> label1,
   point2_label |-> label2,
   label        |-> LinePrefix \o label1 \o label2,
   derived_from |-> parent]

\* the two sub-segments of one interior point, none when the point has no
\* label or the label of an endpoint
PointSegments(pol, line, start_label, end_label, point_label) ==
  IF ~Truthy(point_label) \/ SameAsEndpoint(point_label.v, start_label, end_label) THEN <<>>
  ELSE << SubSegment(line.start, pol.point_pos, start_label, point_label.v,
                     LinePrefix \o start_label \o end_label),
          SubSegment(pol.point_pos, line.end, point_label.v, end_label,
                     LinePrefix \o start_label \o end_label) >>

LineSegments(interior_points, line, start_label, end_label, table) ==
  IF ~Truthy(start_label) \/ ~Truthy(end_label) THEN <<>>
  ELSE Flatten([k \in 1..Len(interior_points) |->
                  PointSegments(interior_points[k], line, start_label.v, end_label.v,
                                get_point_label(interior_points[k].point_pos, table))])

\* the sub-segments of line li (0-based)
GroupSegments(li, interior, lines, table) ==
  IF li >= Len(lines) THEN <<>>
  ELSE LineSegments(SelectSeq(interior, LAMBDA pol : pol.line_idx = li), lines[li + 1],
                    get_point_label(lines[li + 1].start, table),
                    get_point_label(lines[li + 1].end, table), table)

SplitGroups(keys, interior, lines, table) ==
  Flatten([g \in 1..Len(keys) |-> GroupSegments(keys[g], interior, lines, table)])

SplitInterior(interior, lines, table) ==
  SplitGroups(GroupKeys(interior, "line_idx"), interior, lines, table)

split_lines_at_labeled_points(elems, table) ==
  SplitInterior(SelectSeq(elems.relationships.points_on_lines, Interior), elems.lines, table)

(***************************************************************************)
(* generate_derived_arcs.  math.atan2 is exact on the eight compass        *)
(* directions, the only ones the inputs of the model use from a center.    *)
(***************************************************************************)
\* math.degrees(math.atan2(dy, dx)), in (-180, 180]
Atan2Deg(dy, dx) ==
  CASE dy.n = 0 /\ dx.n >= 0 -> RInt(0)
    [] dy.n = 0 /\ dx.n < 0 -> RInt(180)
    [] dx.n = 0 /\ dy.n > 0 -> RInt(90)
    [] dx.n = 0 /\ dy.n < 0 -> RInt(-90)
    [] dx = dy /\ dx.n > 0 -> RInt(45)
    [] dx = dy /\ dx.n < 0 -> RInt(-135)
    [] dx = RNeg(dy) /\ dx.n > 0 -> RInt(-45)
    [] dx = RNeg(dy) /\ dx.n < 0 -> RInt(135)

\* angle % 360
Mod360(angle) == RSub(angle, RInt(360 * (angle.n \div (360 * angle.d))))

\* a variant without the normalisation to [0, 360)
RawAngle(pos, center) == Atan2Deg(RSub(pos[2], center[2]), RSub(pos[1], center[1]))

\* the polar angle of pos around center, normalised to [0, 360)
NormAngle(pos, center) ==
  Mod360(Atan2Deg(RSub(pos[2], center[2]), RSub(pos[1], center[1])))

ArcPrefix == <<"A", "r", "c", "_">>

DerivedArc(circle, start_angle, end_angle, arc_type, label1, label2, center_label) ==
  [center              |-> circle.center,
   radius              |-> circle.radius,
   start_angle         |-> start_angle,
   end_angle           |-> end_angle,
   arc_type            |-> arc_type,
   point1_label        |-> label1,
   point2_label        |-> label2,
   circle_center_label |-> center_label,
   label               |-> ArcPrefix \o label1 \o label2 \o <<"_">> \o arc_type]

InnerText == <<"i", "n", "n", "e", "r">>

OuterText == <<"o", "u", "t", "e", "r">>

\* angle1 <= angle2: the inner arc is the span that is at most 180 degrees
ArcPair(circle, angle1, angle2, label1, label2, center_label) ==
  IF RLeq(RSub(angle2, angle1), RInt(180))
  THEN << DerivedArc(circle, angle1, angle2, InnerText, label1, label2, center_label),
          DerivedArc(circle, angle2, RAdd(angle1, RInt(360)), OuterText, label1, label2,
                     center_label) >>
  ELSE << DerivedArc(circle, angle2, RAdd(angle1, RInt(360)), InnerText, label1, label2,
                     center_label),
          DerivedArc(circle, angle1, angle2, OuterText, label1, label2, center_label) >>

\* the pair is ordered by angle, the labels with it
OrderedArcPair(circle, angle1, angle2, label1, label2, center_label) ==
  IF RLess(angle2, angle1)
  THEN ArcPair(circle, angle2, angle1, label2, label1, center_label)
  ELSE ArcPair(circle, angle1, angle2, label1, label2, center_label)

PairArcs(poc1, poc2, circle, label1, label2, center_label) ==
  IF poc1.point_idx = poc2.point_idx \/ label1 = label2 THEN <<>>
  ELSE OrderedArcPair(circle, NormAngle(poc1.point_pos, circle.center),
                      NormAngle(poc2.point_pos, circle.center), label1, label2, center_label)

\* itertools.combinations(pts, 2): the index pairs i < j in lexicographic order
Combinations(n) == SelectSeq(Pairs(n, n), LAMBDA pr : pr[1] < pr[2])

CombinationArcs(poc1, poc2, circle, table, center_label) ==
  PairArcs(poc1, poc2, circle,
           LabelOr(get_point_label(poc1.point_pos, table), Placeholder("P", poc1.point_idx)),
           LabelOr(get_point_label(poc2.point_pos, table), Placeholder("P", poc2.point_idx)),
           center_label)

CircleArcsOf(pts, combos, circle, table, center_label) ==
  Flatten([c \in 1..Len(combos) |->
             CombinationArcs(pts[combos[c][1]], pts[combos[c][2]], circle, table, center_label)])

CircleArcs(pts, circle, table, center_label) ==
  CircleArcsOf(pts, Combinations(Len(pts)), circle, table, center_label)

\* the arcs of circle ci (0-based); a circle with fewer than two points has none
GroupArcs(ci, pocs, circles, table) ==
  CircleArcs(SelectSeq(pocs, LAMBDA poc : poc.circle_idx = ci), circles[ci + 1], table,
             get_point_label(circles[ci + 1].center, table))

ArcGroups(keys, pocs, circles, table) ==
  Flatten([g \in 1..Len(keys) |-> GroupArcs(keys[g], pocs, circles, table)])

generate_derived_arcs(elems, table) ==
  ArcGroups(GroupKeys(elems.relationships.points_on_circles, "circle_idx"),
            elems.relationships.points_on_circles, elems.circles, table)

(***************************************************************************)
(* Mask generation.  A raster is known by its file; what is drawn on it is *)
(* not part of the model.  A category of the combination result is a       *)
(* sequence of entries in insertion order, the field key being the label   *)
(* the dict is keyed by (and the mask file is named after).                *)
(***************************************************************************)
Categories == {"circles", "lines", "points", "arcs"}

\* generate_masks_from_elements: one mask per non-empty category, and "all"
CategoryMasks(elems) == {c \in Categories : elems[c] # <<>>} \cup {"all"}

\* generate_all_masks: nothing is generated when no element was found
generate_all_masks(elems) ==
  IF Len(elems.circles) + Len(elems.lines) + Len(elems.points) + Len(elems.arcs) = 0
  THEN {}
  ELSE CategoryMasks(elems)

\* f"{base_path}_mask_{category}.png"
MaskFile(category) == <<"mask", category>>

\* result[category][key] = entry: a new key is appended, a known key is replaced
SetEntry(entries, entry) ==
  IF \E k \in 1..Len(entries) : entries[k].key = entry.key
  THEN [k \in 1..Len(entries) |-> IF entries[k].key = entry.key THEN entry ELSE entries[k]]
  ELSE Append(entries, entry)

RECURSIVE SetEntries(_, _, _)
SetEntries(entries, new, i) ==
  IF i > Len(new) THEN entries ELSE SetEntries(SetEntry(entries, new[i]), new, i + 1)

KeysOf(entries) == {entries[k].key : k \in 1..Len(entries)}

LineEntryOf(line, start_label, end_label) ==
  [key          |-> LinePrefix \o start_label \o end_label,
   start        |-> line.start,
   end          |-> line.end,
   point1_label |-> start_label,
   point2_label |-> end_label]

\* the entry of drawn line i (0-based): unlabeled endpoints are P<i>a and P<i>b
LineEntry(i, line, table) ==
  LineEntryOf(line,
    LabelOr(get_point_label(line.start, table), Placeholder("P", i) \o <<"a">>),
    LabelOr(get_point_label(line.end, table), Placeholder("P", i) \o <<"b">>))

LineEntries(lines, table) == [k \in 1..Len(lines) |-> LineEntry(k - 1, lines[k], table)]

SplitEntry(line_data) ==
  [key          |-> line_data.label,
   start        |-> line_data.start,
   end          |-> line_data.end,
   point1_label |-> line_data.point1_label,
   point2_label |-> line_data.point2_label,
   derived_from |-> line_data.derived_from]

SplitEntries(lines) == [k \in 1..Len(lines) |-> SplitEntry(lines[k])]

ArcEntry(arc_data) ==
  [key                 |-> arc_data.label,
   center              |-> arc_data.center,
   radius              |-> arc_data.radius,
   start_angle         |-> arc_data.start_angle,
   end_angle           |-> arc_data.end_angle,
   arc_type            |-> arc_data.arc_type,
   point1_label        |-> arc_data.point1_label,
   point2_label        |-> arc_data.point2_label,
   circle_center_label |-> arc_data.circle_center_label]

ArcEntries(arcs) == [k \in 1..Len(arcs) |-> ArcEntry(arcs[k])]

PointPrefix == <<"P", "o", "i", "n", "t", "_">>

PointEntryOf(point, label) ==
  [key |-> PointPrefix \o label, position |-> point.position, label |-> label]

PointEntries(points, table) ==
  [k \in 1..Len(points) |->
     PointEntryOf(points[k],
       LabelOr(get_point_label(points[k].position, table), Placeholder("P", k - 1)))]

CirclePrefix == <<"C", "i", "r", "c", "l", "e", "_">>

CircleEntryOf(circle, center_label) ==
  [key |-> CirclePrefix \o center_label, center |-> circle.center,
   radius |-> circle.radius, center_label |-> center_label]

CircleEntries(circles, table) ==
  [k \in 1..Len(circles) |->
     CircleEntryOf(circles[k],
       LabelOr(get_point_label(circles[k].center, table), Placeholder("C", k - 1)))]

(***************************************************************************)
(* tikz_to_pixel_coords.  A pixel is a pair of rationals; bbox is <<>> for *)
(* None and <<b>> for the bounding box b of the compilation, in pt.        *)
(***************************************************************************)
pt_per_cm == Rat(569, 20)

\* pixels_per_cm = pt_per_cm * (dpi / 72.0)
pixels_per_cm(resolution) == RMul(pt_per_cm, Rat(resolution, 72))

\* a variant that takes the top-left corner of the image for the origin
FallbackPixelCorner(coord, factor, size, resolution) ==
  << RMul(RMul(coord[1], factor), pixels_per_cm(resolution)),
     RNeg(RMul(RMul(coord[2], factor), pixels_per_cm(resolution))) >>

\* lines 1063-1083: the centre of the image is the origin
FallbackPixel(coord, factor, size, resolution) ==
  << RAdd(Rat(size[1], 2), RMul(RMul(coord[1], factor), pixels_per_cm(resolution))),
     RSub(Rat(size[2], 2), RMul(RMul(coord[2], factor), pixels_per_cm(resolution))) >>

border == RInt(10)

\* x_pt = x_tikz * scale * pt_per_cm
ToPt(x_tikz, factor) == RMul(RMul(x_tikz, factor), pt_per_cm)

\* scale_x = img_w / (bbox_width_pt + 2 * border)
PtScale(img_w, low, high) ==
  RDiv(RInt(img_w), RAdd(RSub(high, low), RMul(RInt(2), border)))

\* a variant without the border of the standalone class
BoxPixelNoBorder(coord, factor, b, size) ==
  << RMul(RSub(ToPt(coord[1], factor), b.min_x),
          RDiv(RInt(size[1]), RSub(b.max_x, b.min_x))),
     RSub(RInt(size[2]),
          RMul(RSub(ToPt(coord[2], factor), b.min_y),
               RDiv(RInt(size[2]), RSub(b.max_y, b.min_y)))) >>

\* lines 1085-1115: pixel_x = (x_pt - min_x + border) * scale_x and
\* pixel_y = img_h - (y_pt - min_y + border) * scale_y
BoxPixel(coord, factor, b, size) ==
  << RMul(RAdd(RSub(ToPt(coord[1], factor), b.min_x), border),
          PtScale(size[1], b.min_x, b.max_x)),
     RSub(RInt(size[2]),
          RMul(RAdd(RSub(ToPt(coord[2], factor), b.min_y), border),
               PtScale(size[2], b.min_y, b.max_y))) >>

tikz_to_pixel_coords(coord, factor, box, size, resolution) ==
  IF box = <<>> THEN FallbackPixel(coord, factor, size, resolution)
  ELSE BoxPixel(coord, factor, box[1], size)

(***************************************************************************)
(* State                                                                   *)
(***************************************************************************)
VARIABLES
  tikz_code,     \* the source text being parsed
  pc,            \* the position in parse_tikz_elements (or in a single call)
  elements,      \* the result dict under construction
  named_coords,  \* the symbol table of named coordinates
  macros,        \* the macro table
  coord_str,     \* the argument of a single resolve_coord call
  resolved,      \* its result
  mode,          \* the batch driver that runs
  doc,           \* the 1-based position of the batch loop
  bpc,           \* the position inside the per-document function
  ret,           \* what the per-document function returned or raised
  files,         \* the files the current per-document call has written
  steps,         \* the external tools the current compile request has run
  success,       \* the result of the current compile request
  results,       \* the booleans the batch loop has received
  aborted,       \* an exception left the batch loop
  labels,        \* the label dict of extract_point_labels, in insertion order
  split_lines,   \* the list split_lines_at_labeled_points returned
  derived_arcs,  \* the list generate_derived_arcs returned
  masks,         \* the dict generate_all_masks returned
  result,        \* the dict generate_combination_masks builds
  mask_files,    \* the mask rasters written so far
  tikz_coord,    \* the arguments of a single tikz_to_pixel_coords call ...
  bbox,          \* ... <<>> is None, <<b>> the bounding box b
  image_size,
  dpi,
  pixel,         \* its result
  job,           \* the two per-document calls that run at the same time
  wpc,           \* the position of each of them
  fs,            \* the files on disk: pairs <<path, content>>
  tmpdir,        \* the temporary directory each call holds (<<>>: none)
  trace          \* the steps each call has taken, with what the tools did

parseVars == <<tikz_code, pc, elements, named_coords, macros, coord_str, resolved>>

batchVars == <<mode, doc, bpc, ret, files, steps, success, results, aborted>>

maskVars == <<labels, split_lines, derived_arcs, masks, result, mask_files>>

pixelVars == <<tikz_coord, bbox, image_size, dpi, pixel>>

workerVars == <<job, wpc, fs, tmpdir, trace>>

vars == <<tikz_code, pc, elements, named_coords, macros, coord_str, resolved,
          mode, doc, bpc, ret, files, steps, success, results, aborted,
          labels, split_lines, derived_arcs, masks, result, mask_files,
          tikz_coord, bbox, image_size, dpi, pixel,
          job, wpc, fs, tmpdir, trace>>

NoRelationships == [points_on_circles |-> <<>>, points_on_lines |-> <<>>]

EmptyElements ==
  [circles |-> <<>>, lines |-> <<>>, points |-> <<>>, arcs |-> <<>>,
   scale |-> RInt(1), relationships |-> NoRelationships]

\* no batch is running
BatchIdle ==
  /\ mode = "none"
  /\ doc = 0
  /\ bpc = "idle"
  /\ ret = "none"
  /\ files = {}
  /\ steps = <<>>
  /\ success = "none"
  /\ results = <<>>
  /\ aborted = FALSE

EmptyResult == [lines |-> <<>>, arcs |-> <<>>, points |-> <<>>, circles |-> <<>>]

\* no mask generation is running
MaskIdle ==
  /\ labels = <<>>
  /\ split_lines = <<>>
  /\ derived_arcs = <<>>
  /\ masks = {}
  /\ result = EmptyResult
  /\ mask_files = {}

\* no coordinate is being mapped
PixelIdle ==
  /\ tikz_coord = <<>>
  /\ bbox = <<>>
  /\ image_size = <<0, 0>>
  /\ dpi = 0
  /\ pixel = <<>>

\* no two calls run at the same time
WorkersIdle ==
  /\ job = <<>>
  /\ wpc = <<>>
  /\ fs = {}
  /\ tmpdir = <<>>
  /\ trace = <<>>

\* no parse is running
ParseIdle ==
  /\ tikz_code = <<>>
  /\ pc = "idle"
  /\ elements = EmptyElements
  /\ named_coords = NoTable
  /\ macros = NoTable
  /\ coord_str = <<>>
  /\ resolved = None

(***************************************************************************)
(* The documents parse_tikz_elements is run on: every sequence of at most  *)
(* MaxStmts statements of StmtPool.                                        *)
(***************************************************************************)
MaxStmts == 2

StmtPool ==
  { [k |-> "begin", scale |-> <<"2">>],
    [k |-> "begin", scale |-> <<"1", ".", "2", ".", "3">>],
    [k |-> "coordinate", name |-> <<"A">>, at |-> <<"1", ",", "0">>],
    [k |-> "coordinate", name |-> <<"B">>, at |-> <<"A", "+", "1">>],
    [k |-> "def", name |-> <<"r">>, value |-> <<"5", "m", "m">>],
    [k |-> "draw_circle", center |-> <<"0", ",", "0">>,
       radius |-> <<"5", "6", ".", "9", "p", "t">>],
    [k |-> "draw_circle", center |-> <<"A">>, radius |-> <<"\\", "r">>],
    [k |-> "draw_circle", center |-> <<"0", ",", "1">>, radius |-> <<"2", "c", "m">>],
    [k |-> "draw_circle", center |-> <<"-", "1", ",", "1">>, radius |-> <<"1", ".", "5">>],
    [k |-> "draw_circle", center |-> <<"2", ",", "-", "1">>, radius |-> <<"5", "m", "m">>],
    [k |-> "draw_circle", center |-> <<"0", ",", "0">>, radius |-> <<"a", "b", "c">>],
    [k |-> "draw_circle", center |-> <<"+", "1", ",", "2">>, radius |-> <<"1">>],
    [k |-> "draw_circle", center |-> <<"1", ".", "2", ".", "3", ",", "0">>, radius |-> <<"1">>],
    [k |-> "draw_path", coords |-> << <<"0", ",", "0">>, <<"0", ".", "2", "9", ",", "0">> >>,
       cycle |-> FALSE],
    [k |-> "draw_path", coords |-> << <<"0", ",", "0">>, <<"0", ".", "3", "1", ",", "0">> >>,
       cycle |-> FALSE],
    [k |-> "draw_path", coords |-> << <<"0", ",", "0">>, <<"0", ".", "1", "8", ",", "0", ".", "2", "4">> >>,
       cycle |-> FALSE],
    [k |-> "draw_path", coords |-> << <<"A">>, <<"0", ",", "1">>, <<"B">>, <<"1", ",", "1">> >>,
       cycle |-> TRUE],
    [k |-> "draw_path", coords |-> << <<"0", ",", "0">>, <<"0", ",", "1">> >>,
       cycle |-> TRUE],
    [k |-> "fill", pos |-> <<"0", ",", "0">>, size |-> <<"2", "p", "t">>],
    [k |-> "fill", pos |-> <<"0", ".", "0", "0", "0", "6", ",", "0">>, size |-> <<"1", "m", "m">>],
    [k |-> "fill", pos |-> <<"A">>, size |-> <<"-">>],
    [k |-> "fill", pos |-> <<"1", ",", "0">>, size |-> <<".">>],
    [k |-> "filldraw", pos |-> <<"0", ".", "0", "0", "0", "4", ",", "0">>, size |-> <<"3">>],
    [k |-> "arc", start |-> <<"1", ",", "0">>, sa |-> <<"0">>, ea |-> <<"9", "0">>,
       radius |-> <<"2">>],
    [k |-> "arc", start |-> <<"1", ",", "0">>, sa |-> <<"9", "0">>, ea |-> <<"1", "8", "0">>,
       radius |-> <<"\\", "r">>],
    [k |-> "arc", start |-> <<"1", ",", "0">>, sa |-> <<"-", "9", "0">>, ea |-> <<"9", "0">>,
       radius |-> <<"1">>],
    [k |-> "arc_opts", start |-> <<"1", ",", "0">>, sa |-> <<"-", "9", "0">>,
       ea |-> <<"9", "0">>, radius |-> <<"1", "p", "t">>],
    [k |-> "arc_opts", start |-> <<"1", ",", "0">>, sa |-> <<"0">>,
       ea |-> <<"9", "0">>, radius |-> <<"a", "b", "c">>] }

Docs == UNION {[1..n -> StmtPool] : n \in 0..MaxStmts}

Init ==
  /\ tikz_code \in Docs
  /\ pc = "scale"
  /\ elements = EmptyElements
  /\ named_coords = NoTable
  /\ macros = NoTable
  /\ coord_str = <<>>
  /\ resolved = None
  /\ BatchIdle
  /\ MaskIdle
  /\ PixelIdle
  /\ WorkersIdle

(***************************************************************************)
(* parse_tikz_elements, one action per step; a ValueError raised inside a  *)
(* step leaves the function (pc = "raised") and no result is returned.     *)
(***************************************************************************)
\* one step: on Ok(v) store v in the field and go on to next, on Raise leave
StepTo(at, next, outcome, field) ==
  /\ pc = at
  /\ IF outcome.tag = "raise"
     THEN pc' = "raised" /\ elements' = elements
     ELSE pc' = next /\ elements' = [elements EXCEPT ![field] = outcome.v]
  /\ UNCHANGED <<tikz_code, named_coords, macros, coord_str, resolved>>
  /\ UNCHANGED batchVars
  /\ UNCHANGED <<maskVars, pixelVars, workerVars>>

ParseScale == StepTo("scale", "named", parse_tikz_scale(tikz_code), "scale")

NamedTo(acc) ==
  IF acc.tag = "raise"
  THEN pc' = "raised" /\ named_coords' = named_coords
  ELSE pc' = "macros" /\ named_coords' = acc.v

ExtractNamed ==
  /\ pc = "named"
  /\ NamedTo(extract_named_coordinates(tikz_code))
  /\ UNCHANGED <<tikz_code, elements, macros, coord_str, resolved>>
  /\ UNCHANGED batchVars
  /\ UNCHANGED <<maskVars, pixelVars, workerVars>>

ExtractMacros ==
  /\ pc = "macros"
  /\ macros' = extract_latex_macros(tikz_code)
  /\ pc' = "circles"
  /\ UNCHANGED <<tikz_code, elements, named_coords, coord_str, resolved>>
  /\ UNCHANGED batchVars
  /\ UNCHANGED <<maskVars, pixelVars, workerVars>>

ExtractCircles ==
  StepTo("circles", "lines",
         CirclePass(tikz_code, 1, named_coords, macros, Ok(elements.circles)), "circles")

ExtractLines ==
  StepTo("lines", "points", LinePass(tikz_code, 1, named_coords, Ok(elements.lines)), "lines")

ExtractPoints ==
  StepTo("points", "filldraw",
         PointPass(tikz_code, FillPattern, 1, named_coords, Ok(elements.points)), "points")

ExtractFilldrawPoints ==
  StepTo("filldraw", "arcs",
         PointPass(tikz_code, FilldrawPattern, 1, named_coords, Ok(elements.points)), "points")

ExtractArcs ==
  StepTo("arcs", "arc_opts", ArcPass(tikz_code, 1, named_coords, Ok(elements.arcs)), "arcs")

ExtractArcOptions ==
  StepTo("arc_opts", "dedup",
         ArcOptionsPass(tikz_code, 1, named_coords, Ok(elements.arcs)), "arcs")

DeduplicatePoints ==
  StepTo("dedup", "filter", Ok(unique_points(elements.points)), "points")

FilterShortLines ==
  StepTo("filter", "relationships", Ok(filtered_lines(elements.lines)), "lines")

ComputeRelationshipsUnfiltered ==
  StepTo("relationships", "done",
         Ok(compute_geometric_relationships(
              [elements EXCEPT !.lines = LinePass(tikz_code, 1, named_coords, Ok(<<>>)).v],
              Tolerance)),
         "relationships")

ComputeRelationships ==
  StepTo("relationships", "done",
         Ok(compute_geometric_relationships(elements, Tolerance)), "relationships")

Next ==
  \/ ParseScale
  \/ ExtractNamed
  \/ ExtractMacros
  \/ ExtractCircles
  \/ ExtractLines
  \/ ExtractPoints
  \/ ExtractFilldrawPoints
  \/ ExtractArcs
  \/ ExtractArcOptions
  \/ DeduplicatePoints
  \/ FilterShortLines
  \/ ComputeRelationships

Spec == Init /\ [][Next]_vars

(***************************************************************************)
(* A single call of resolve_coord, on the tokens a,b over Numerals and on  *)
(* three symbol tables: the empty one, one with an ordinary name, and one  *)
(* whose name is itself written like a pair (\coordinate (1,-2) at (5,5)). *)
(***************************************************************************)
Numerals ==
  { <<"1">>, <<"-", "2">>, <<"+", "1">>, <<"0", ".", "5">>, <<"-", "0", ".", "2", "5">>,
    <<"+", "3", ".", "5">>, <<"1", "0">> }

Tokens == {a \o <<",">> \o b : a \in Numerals, b \in Numerals}

Tables ==
  { NoTable,
    <<"A">> :> <<RInt(1), RInt(0)>>,
    <<"1", ",", "-", "2">> :> <<RInt(5), RInt(5)>> }

InitResolve ==
  /\ tikz_code = <<>>
  /\ pc = "resolve"
  /\ elements = EmptyElements
  /\ named_coords \in Tables
  /\ macros = NoTable
  /\ coord_str \in Tokens
  /\ resolved = None
  /\ BatchIdle
  /\ MaskIdle
  /\ PixelIdle
  /\ WorkersIdle

Resolve ==
  /\ pc = "resolve"
  /\ resolved' = resolve_coord(coord_str, named_coords)
  /\ pc' = "resolved"
  /\ UNCHANGED <<tikz_code, elements, named_coords, macros, coord_str>>
  /\ UNCHANGED batchVars
  /\ UNCHANGED <<maskVars, pixelVars, workerVars>>

NextResolve == Resolve

SpecResolve == InitResolve /\ [][NextResolve]_vars

(***************************************************************************)
(* A single call of compute_geometric_relationships, on one or two points, *)
(* one or two circles around the origin and at most two lines.             *)
(***************************************************************************)
Positions ==
  { <<RInt(0), RInt(0)>>,
    <<Rat(3, 10), Rat(4, 10)>>, <<Rat(39, 100), Rat(52, 100)>>,
    <<Rat(6, 10), Rat(8, 10)>>, <<Rat(5, 10), Rat(12, 10)>>,
    <<RInt(3), RInt(4)>>,
    <<Rat(-1, 10), RInt(0)>>, <<Rat(11, 10), RInt(0)>>, <<Rat(6, 5), RInt(0)>> }

Radii == {RInt(0), Rat(1, 2), RInt(1), RInt(5)}

MaxPoints == 2

PointLists ==
  UNION {[1..n -> {[position |-> p, size |-> DefaultPointSize] : p \in Positions}] :
           n \in 1..MaxPoints}

CircleLists ==
  {<<[center |-> <<RInt(0), RInt(0)>>, radius |-> r]>> : r \in Radii}
    \cup {<< [center |-> <<RInt(0), RInt(0)>>, radius |-> RInt(1)],
             [center |-> <<RInt(0), RInt(0)>>, radius |-> Rat(11, 10)] >>}

LineLists ==
  { <<>>,
    <<[start |-> <<RInt(0), RInt(0)>>, end |-> <<RInt(3), RInt(4)>>]>>,
    <<[start |-> <<RInt(0), RInt(0)>>, end |-> <<RInt(1), RInt(0)>>]>>,
    << [start |-> <<RInt(3), RInt(4)>>, end |-> <<RInt(0), RInt(0)>>],
       [start |-> <<RInt(0), RInt(0)>>, end |-> <<RInt(1), RInt(0)>>] >> }

InitInfer ==
  /\ tikz_code = <<>>
  /\ pc = "infer"
  /\ \E ps \in PointLists, cs \in CircleLists, ls \in LineLists :
       elements = [EmptyElements EXCEPT !.points = ps, !.circles = cs, !.lines = ls]
  /\ named_coords = NoTable
  /\ macros = NoTable
  /\ coord_str = <<>>
  /\ resolved = None
  /\ BatchIdle
  /\ MaskIdle
  /\ PixelIdle
  /\ WorkersIdle

Infer ==
  /\ pc = "infer"
  /\ elements' = [elements EXCEPT
                    !.relationships = compute_geometric_relationships(elements, Tolerance)]
  /\ pc' = "inferred"
  /\ UNCHANGED <<tikz_code, named_coords, macros, coord_str, resolved>>
  /\ UNCHANGED batchVars
  /\ UNCHANGED <<maskVars, pixelVars, workerVars>>

NextInfer == Infer

SpecInfer == InitInfer /\ [][NextInfer]_vars

(***************************************************************************)
(* A call of split_lines_at_labeled_points and of generate_derived_arcs on *)
(* the relationships of up to MaxDerivePoints points, the segment from     *)
(* (0,0) to (10,0) and circles around (5,0), under five label dicts.       *)
(***************************************************************************)
DerivePositions ==
  { <<RInt(0), RInt(0)>>, <<RInt(10), RInt(0)>>, <<RInt(5), RInt(0)>>, <<RInt(2), RInt(0)>>,
    <<RInt(5), RInt(5)>>, <<RInt(5), RInt(-5)>>, <<Rat(17, 2), Rat(7, 2)>> }

MaxDerivePoints == 2

\* lists of distinct positions, as the deduplication leaves them
DerivePointLists ==
  UNION {{ps \in [1..n -> {[position |-> p, size |-> DefaultPointSize] : p \in DerivePositions}] :
            \A i, j \in 1..n : i # j => ps[i] # ps[j]} : n \in 1..MaxDerivePoints}

DeriveLineLists ==
  { <<>>,
    <<[start |-> <<RInt(0), RInt(0)>>, end |-> <<RInt(10), RInt(0)>>]>>,
    <<[start |-> <<RInt(0), RInt(0)>>, end |-> <<RInt(5), RInt(5)>>],
      [start |-> <<RInt(0), RInt(0)>>, end |-> <<RInt(10), RInt(0)>>]>> }

DeriveCircleLists ==
  { <<>>,
    <<[center |-> <<RInt(5), RInt(0)>>, radius |-> RInt(5)]>>,
    <<[center |-> <<RInt(5), RInt(0)>>, radius |-> Rat(11, 2)],
      [center |-> <<RInt(5), RInt(0)>>, radius |-> RInt(5)]>> }

LabelAt(x, y, label) == [coord |-> <<x, y>>, label |-> label]

LabelTables ==
  { <<>>,
    <<LabelAt(RInt(0), RInt(0), <<"A">>), LabelAt(RInt(10), RInt(0), <<"B">>),
      LabelAt(RInt(5), RInt(0), <<"M">>), LabelAt(RInt(5), RInt(5), <<"N">>)>>,
    <<LabelAt(RInt(0), RInt(0), <<"A">>), LabelAt(RInt(10), RInt(0), <<"B">>),
      LabelAt(RInt(5), RInt(0), <<"B">>), LabelAt(RInt(5), RInt(5), <<"P", "1">>)>>,
    <<LabelAt(RInt(0), RInt(0), <<"A">>), LabelAt(RInt(5), RInt(0), <<"M">>),
      LabelAt(RInt(2), RInt(0), <<"Q">>)>>,
    <<LabelAt(Rat(5, 1000), RInt(0), <<"X">>), LabelAt(RInt(0), RInt(0), <<"A">>),
      LabelAt(RInt(10), RInt(0), <<"B">>), LabelAt(RInt(5), RInt(0), <<"M">>),
      LabelAt(RInt(5), RInt(-5), <<>>)>> }

InitDerive ==
  /\ tikz_code = <<>>
  /\ pc = "infer"
  /\ \E ps \in DerivePointLists, cs \in DeriveCircleLists, ls \in DeriveLineLists :
       elements = [EmptyElements EXCEPT !.points = ps, !.circles = cs, !.lines = ls]
  /\ named_coords = NoTable
  /\ macros = NoTable
  /\ coord_str = <<>>
  /\ resolved = None
  /\ BatchIdle
  /\ labels \in LabelTables
  /\ split_lines = <<>>
  /\ derived_arcs = <<>>
  /\ masks = {}
  /\ result = EmptyResult
  /\ mask_files = {}
  /\ PixelIdle
  /\ WorkersIdle

SplitLines ==
  /\ pc = "inferred"
  /\ split_lines' = split_lines_at_labeled_points(elements, labels)
  /\ pc' = "split"
  /\ UNCHANGED <<tikz_code, elements, named_coords, macros, coord_str, resolved>>
  /\ UNCHANGED <<labels, derived_arcs, masks, result, mask_files>>
  /\ UNCHANGED <<batchVars, pixelVars, workerVars>>

DerivedArcs ==
  /\ pc = "split"
  /\ derived_arcs' = generate_derived_arcs(elements, labels)
  /\ pc' = "derived"
  /\ UNCHANGED <<tikz_code, elements, named_coords, macros, coord_str, resolved>>
  /\ UNCHANGED <<labels, split_lines, masks, result, mask_files>>
  /\ UNCHANGED <<batchVars, pixelVars, workerVars>>

NextDerive ==
  \/ Infer
  \/ SplitLines
  \/ DerivedArcs

SpecDerive == InitDerive /\ [][NextDerive]_vars

(***************************************************************************)
(* process_single_image after a successful compile (lines 91-163): the     *)
(* document is parsed, its coordinate data saved, and its masks generated. *)
(* The documents are the end-to-end scenario of the specification, a       *)
(* drawing with a tick mark and a repeated point, a drawing with a labeled *)
(* point near the end of a line, and every sequence of at most             *)
(* MaxMaskStmts statements of MaskPool.                                    *)
(***************************************************************************)
MaxMaskStmts == 3

Origin == <<"0", ",", "0">>

TwoPt == <<"2", "p", "t">>

MaskPool ==
  { [k |-> "coordinate", name |-> <<"A">>, at |-> Origin],
    [k |-> "coordinate", name |-> <<"B">>, at |-> <<"4", ",", "0">>],
    [k |-> "draw_path", coords |-> << <<"A">>, <<"B">> >>, cycle |-> FALSE],
    [k |-> "fill", pos |-> <<"A">>, size |-> TwoPt, node |-> <<"A">>],
    [k |-> "fill", pos |-> <<"B">>, size |-> TwoPt, node |-> <<"B">>],
    [k |-> "fill", pos |-> Origin, size |-> TwoPt, node |-> <<"P">>],
    [k |-> "filldraw", pos |-> Origin, size |-> TwoPt, node |-> <<"Q">>],
    [k |-> "fill", pos |-> <<"0", ".", "0", "0", "5", ",", "0">>, size |-> TwoPt, node |-> <<>>],
    [k |-> "node", at |-> <<"0", ".", "4", ",", "0">>, label |-> <<"X">>],
    [k |-> "node", at |-> <<"0", ".", "1", ",", "0">>, label |-> <<"Y">>],
    [k |-> "draw_circle", center |-> Origin, radius |-> <<"4">>],
    [k |-> "draw_circle", center |-> <<"1", ".", "2", ".", "3", ",", "0">>, radius |-> <<"1">>],
    [k |-> "node", at |-> <<"1", ".", "2", ".", "3", ",", "0">>, label |-> <<"Z">>] }

\* \coordinate (A) at (0,0); \coordinate (B) at (4,0); \draw (A)--(B);
\* \fill (A) circle (2pt) node[left]{$A$}; \fill (B) circle (2pt) node[right]{$B$};
Scenario ==
  << [k |-> "coordinate", name |-> <<"A">>, at |-> Origin],
     [k |-> "coordinate", name |-> <<"B">>, at |-> <<"4", ",", "0">>],
     [k |-> "draw_path", coords |-> << <<"A">>, <<"B">> >>, cycle |-> FALSE],
     [k |-> "fill", pos |-> <<"A">>, size |-> TwoPt, node |-> <<"A">>],
     [k |-> "fill", pos |-> <<"B">>, size |-> TwoPt, node |-> <<"B">>] >>

\* \draw (0,0)--(0.2,0); \draw (0,0)--(4,0); \fill (0,0) circle (2pt) node[left]{$P$};
\* \filldraw (0,0) circle (2pt) node[left]{$Q$}; \fill (4,0) circle (2pt) node[right]{$B$};
\* a tick mark before a line and a repeated point before another point
TickMarks ==
  << [k |-> "draw_path", coords |-> << Origin, <<"0", ".", "2", ",", "0">> >>, cycle |-> FALSE],
     [k |-> "draw_path", coords |-> << Origin, <<"4", ",", "0">> >>, cycle |-> FALSE],
     [k |-> "fill", pos |-> Origin, size |-> TwoPt, node |-> <<"P">>],
     [k |-> "filldraw", pos |-> Origin, size |-> TwoPt, node |-> <<"Q">>],
     [k |-> "fill", pos |-> <<"4", ",", "0">>, size |-> TwoPt, node |-> <<"B">>] >>

\* \draw (0,0)--(1,0); \fill (0,0) circle (2pt) node[left]{$A$};
\* \fill (1,0) circle (2pt) node[right]{$B$}; \fill (0.2,0) circle (2pt) node[above]{$M$};
\* a labeled point on a line, near one of its labeled ends
NearEnd ==
  << [k |-> "draw_path", coords |-> << Origin, <<"1", ",", "0">> >>, cycle |-> FALSE],
     [k |-> "fill", pos |-> Origin, size |-> TwoPt, node |-> <<"A">>],
     [k |-> "fill", pos |-> <<"1", ",", "0">>, size |-> TwoPt, node |-> <<"B">>],
     [k |-> "fill", pos |-> <<"0", ".", "2", ",", "0">>, size |-> TwoPt, node |-> <<"M">>] >>

MaskDocs ==
  {Scenario, TickMarks, NearEnd} \cup UNION {[1..n -> MaskPool] : n \in 0..MaxMaskStmts}

InitMasks ==
  /\ tikz_code \in MaskDocs
  /\ pc = "scale"
  /\ elements = EmptyElements
  /\ named_coords = NoTable
  /\ macros = NoTable
  /\ coord_str = <<>>
  /\ resolved = None
  /\ BatchIdle
  /\ MaskIdle
  /\ PixelIdle
  /\ WorkersIdle

\* line 92 raised: the guard of process_single_image returns False
ParseFailed ==
  /\ pc = "raised"
  /\ pc' = "returned"
  /\ ret' = "False"
  /\ UNCHANGED <<tikz_code, elements, named_coords, macros, coord_str, resolved>>
  /\ UNCHANGED <<mode, doc, bpc, files, steps, success, results, aborted>>
  /\ UNCHANGED <<maskVars, pixelVars, workerVars>>

\* lines 95-107: save_segmentation
SaveCoordData ==
  /\ pc = "done"
  /\ pc' = "all_masks"
  /\ files' = files \cup {"coords_json"}
  /\ UNCHANGED <<tikz_code, elements, named_coords, macros, coord_str, resolved>>
  /\ UNCHANGED <<mode, doc, bpc, ret, steps, success, results, aborted>>
  /\ UNCHANGED <<maskVars, pixelVars, workerVars>>

\* line 112: generate_all_masks
GenerateAllMasks ==
  /\ pc = "all_masks"
  /\ pc' = "point_labels"
  /\ masks' = generate_all_masks(elements)
  /\ mask_files' = mask_files \cup {MaskFile(c) : c \in generate_all_masks(elements)}
  /\ UNCHANGED <<tikz_code, elements, named_coords, macros, coord_str, resolved>>
  /\ UNCHANGED <<labels, split_lines, derived_arcs, result>>
  /\ UNCHANGED <<batchVars, pixelVars, workerVars>>

LabelsTo(found) ==
  IF found.tag = "raise"
  THEN pc' = "returned" /\ ret' = "False" /\ labels' = labels
  ELSE pc' = "line_masks" /\ ret' = ret /\ labels' = found.v

\* line 122 (and again line 1351): extract_point_labels; its ValueError is
\* caught by the guard of process_single_image
ExtractPointLabels ==
  /\ pc = "point_labels"
  /\ LabelsTo(extract_point_labels(tikz_code))
  /\ UNCHANGED <<tikz_code, elements, named_coords, macros, coord_str, resolved>>
  /\ UNCHANGED <<mode, doc, bpc, files, steps, success, results, aborted>>
  /\ UNCHANGED <<split_lines, derived_arcs, masks, result, mask_files>>
  /\ UNCHANGED <<pixelVars, workerVars>>

\* one loop of generate_combination_masks: the entries are stored under their
\* keys and one mask file per key is written
StoreMasks(at, next, category, entries) ==
  /\ pc = at
  /\ pc' = next
  /\ result' = [result EXCEPT ![category] = SetEntries(result[category], entries, 1)]
  /\ mask_files' = mask_files \cup KeysOf(entries)
  /\ UNCHANGED <<tikz_code, elements, named_coords, macros, coord_str, resolved>>
  /\ UNCHANGED <<labels, masks>>
  /\ UNCHANGED <<batchVars, pixelVars, workerVars>>

\* lines 1378-1401
LineMasks ==
  /\ StoreMasks("line_masks", "split_masks", "lines", LineEntries(elements.lines, labels))
  /\ UNCHANGED <<split_lines, derived_arcs>>

\* a variant that appends the derived segments to the line list of the elements
SplitLineMasksInPlace ==
  /\ pc = "split_masks"
  /\ pc' = "arc_masks"
  /\ result' = [result EXCEPT
                  !["lines"] = SetEntries(result["lines"],
                                 SplitEntries(split_lines_at_labeled_points(elements, labels)), 1)]
  /\ mask_files' = mask_files
                     \cup KeysOf(SplitEntries(split_lines_at_labeled_points(elements, labels)))
  /\ split_lines' = split_lines_at_labeled_points(elements, labels)
  /\ elements' = [elements EXCEPT
                    !.lines = elements.lines
                                \o split_lines_at_labeled_points(elements, labels)]
  /\ UNCHANGED <<tikz_code, named_coords, macros, coord_str, resolved>>
  /\ UNCHANGED <<labels, masks, derived_arcs>>
  /\ UNCHANGED <<batchVars, pixelVars, workerVars>>

\* lines 1403-1423
SplitLineMasks ==
  /\ StoreMasks("split_masks", "arc_masks", "lines",
                SplitEntries(split_lines_at_labeled_points(elements, labels)))
  /\ split_lines' = split_lines_at_labeled_points(elements, labels)
  /\ UNCHANGED derived_arcs

\* lines 1425-1461
DerivedArcMasks ==
  /\ StoreMasks("arc_masks", "point_masks", "arcs",
                ArcEntries(generate_derived_arcs(elements, labels)))
  /\ derived_arcs' = generate_derived_arcs(elements, labels)
  /\ UNCHANGED split_lines

\* lines 1463-1487
PointMasks ==
  /\ StoreMasks("point_masks", "circle_masks", "points", PointEntries(elements.points, labels))
  /\ UNCHANGED <<split_lines, derived_arcs>>

\* lines 1489-1515
CircleMasks ==
  /\ StoreMasks("circle_masks", "combinations", "circles",
                CircleEntries(elements.circles, labels))
  /\ UNCHANGED <<split_lines, derived_arcs>>

\* lines 139-163: the combination metadata and the labeled PDF, then True
SaveCombinations ==
  /\ pc = "combinations"
  /\ pc' = "returned"
  /\ ret' = "True"
  /\ files' = files \cup {"combinations_json"}
  /\ UNCHANGED <<tikz_code, elements, named_coords, macros, coord_str, resolved>>
  /\ UNCHANGED <<mode, doc, bpc, steps, success, results, aborted>>
  /\ UNCHANGED <<maskVars, pixelVars, workerVars>>

NextMasks ==
  \/ Next
  \/ ParseFailed
  \/ SaveCoordData
  \/ GenerateAllMasks
  \/ ExtractPointLabels
  \/ LineMasks
  \/ SplitLineMasks
  \/ DerivedArcMasks
  \/ PointMasks
  \/ CircleMasks
  \/ SaveCombinations

SpecMasks == InitMasks /\ [][NextMasks]_vars

(***************************************************************************)
(* One call of tikz_to_pixel_coords, as the to_pixel helper of the mask    *)
(* generators makes it: the scale is the one of the parsed elements, the   *)
(* bounding box the one of the compilation (max >= min on both axes).      *)
(***************************************************************************)
PixelCoords ==
  { <<RInt(0), RInt(0)>>, <<RInt(4), RInt(0)>>, <<RInt(-1), RInt(-1)>>, <<RInt(4), RInt(2)>>,
    <<RInt(2), RInt(1)>>, <<RInt(1), RInt(1)>>, <<RInt(5), RInt(3)>>, <<Rat(-3, 2), RInt(0)>> }

PixelScales == {RInt(1), RInt(2), Rat(1, 2)}

Box(min_x, min_y, max_x, max_y) ==
  [min_x |-> min_x, min_y |-> min_y, max_x |-> max_x, max_y |-> max_y]

\* the boxes of drawings that span (-1,-1)..(4,2), (-1,-1)..(1,1), (0,0)..(4,0)
\* in cm, and a box in round pt
BoxPool ==
  { Box(Rat(-569, 20), Rat(-569, 20), Rat(569, 5), Rat(569, 10)),
    Box(Rat(-569, 20), Rat(-569, 20), Rat(569, 20), Rat(569, 20)),
    Box(RInt(0), RInt(0), Rat(569, 5), RInt(0)),
    Box(RInt(-10), RInt(-5), RInt(120), RInt(60)) }

ImageSizes == {<<400, 200>>, <<800, 600>>}

Resolutions == {72, 300}

InitPixel ==
  /\ tikz_coord \in PixelCoords
  /\ bbox \in {<<>>} \cup {<<b>> : b \in BoxPool}
  /\ image_size \in ImageSizes
  /\ dpi \in Resolutions
  /\ pixel = <<>>
  /\ elements \in {[EmptyElements EXCEPT !.scale = f] : f \in PixelScales}
  /\ pc = "to_pixel"
  /\ tikz_code = <<>>
  /\ named_coords = NoTable
  /\ macros = NoTable
  /\ coord_str = <<>>
  /\ resolved = None
  /\ BatchIdle
  /\ MaskIdle
  /\ WorkersIdle

\* to_pixel(coord): tikz_to_pixel_coords(coord, scale, bbox, image_size, dpi)
ToPixel ==
  /\ pc = "to_pixel"
  /\ pc' = "pixel"
  /\ pixel' = tikz_to_pixel_coords(tikz_coord, elements.scale, bbox, image_size, dpi)
  /\ UNCHANGED <<tikz_code, elements, named_coords, macros, coord_str, resolved>>
  /\ UNCHANGED <<tikz_coord, bbox, image_size, dpi>>
  /\ UNCHANGED <<batchVars, maskVars, workerVars>>

NextPixel == ToPixel

SpecPixel == InitPixel /\ [][NextPixel]_vars

(***************************************************************************)
(* The batch drivers and their per-document functions:                     *)
(*   generate  run_generate_mode -> process_generate                       *)
(*   segment   run_segment_mode  -> process_segment                        *)
(*   single    generate_from_image.main -> process_single_image            *)
(* Every step that touches the file system, the vision service or an       *)
(* external tool either succeeds or raises; which one is the environment's *)
(* choice.  A compile request runs pdflatex, then pdftoppm, then convert   *)
(* (compile_tikz_to_png and compile_tikz_with_coords share these steps).   *)
(* A segmented document has at most one overlay to render.                 *)
(***************************************************************************)
MaxDocs == 2

Modes == {"generate", "segment", "single"}

FirstStep(m) ==
  CASE m = "generate" -> "mkdir" [] m = "segment" -> "check" [] m = "single" -> "vision"

InitBatch ==
  /\ ParseIdle
  /\ mode \in Modes
  /\ doc = 1
  /\ bpc = FirstStep(mode)
  /\ ret = "none"
  /\ files = {}
  /\ steps = <<>>
  /\ success = "none"
  /\ results = <<>>
  /\ aborted = FALSE
  /\ MaskIdle
  /\ PixelIdle
  /\ WorkersIdle

\* the function goes on to its next step
Goto(next) == bpc' = next /\ ret' = ret

\* the function returns a boolean, or an exception leaves it (v = "raise")
Return(v) == bpc' = "returned" /\ ret' = v

\* process_generate, line 60: the directory is created before the try block
Mkdir ==
  /\ mode = "generate" /\ bpc = "mkdir"
  /\ \E o \in {"ok", "raise"} : IF o = "ok" THEN Goto("vision") ELSE Return("raise")
  /\ UNCHANGED <<mode, doc, files, steps, success, results, aborted>>
  /\ UNCHANGED parseVars
  /\ UNCHANGED <<maskVars, pixelVars, workerVars>>

\* the loop head of run_segment_mode: a directory whose name holds no index is
\* skipped without a result
SkipDirectory ==
  /\ mode = "segment" /\ bpc = "check"
  /\ IF doc < MaxDocs THEN doc' = doc + 1 /\ bpc' = "check"
                      ELSE doc' = doc /\ bpc' = "finished"
  /\ UNCHANGED <<mode, ret, files, steps, success, results, aborted>>
  /\ UNCHANGED parseVars
  /\ UNCHANGED <<maskVars, pixelVars, workerVars>>

\* process_segment, lines 186-192
CheckExisting ==
  /\ mode = "segment" /\ bpc = "check"
  /\ \E present \in BOOLEAN : IF present THEN Goto("load") ELSE Return("False")
  /\ UNCHANGED <<mode, doc, files, steps, success, results, aborted>>
  /\ UNCHANGED parseVars
  /\ UNCHANGED <<maskVars, pixelVars, workerVars>>

\* process_segment, lines 195-206: img.tex or img.json is read before the try
\* block; "empty" is a document without stored source
LoadSource ==
  /\ mode = "segment" /\ bpc = "load"
  /\ \E o \in {"ok", "empty", "raise"} :
       CASE o = "ok"    -> Goto("vision")
         [] o = "empty" -> Return("False")
         [] o = "raise" -> Return("raise")
  /\ UNCHANGED <<mode, doc, files, steps, success, results, aborted>>
  /\ UNCHANGED parseVars
  /\ UNCHANGED <<maskVars, pixelVars, workerVars>>

\* generate_tikz_from_image / generate_synthetic_segmentation, inside the try
\* block of all three functions; "empty" is a segmentation without annotations
Vision ==
  /\ bpc = "vision"
  /\ \E o \in {"ok", "empty", "raise"} :
       CASE o = "ok"    -> Goto(IF mode = "segment" THEN "save_seg" ELSE "save_tex")
         [] o = "empty" -> mode = "segment" /\ Return("True")
         [] o = "raise" -> Return("False")
  /\ UNCHANGED <<mode, doc, files, steps, success, results, aborted>>
  /\ UNCHANGED parseVars
  /\ UNCHANGED <<maskVars, pixelVars, workerVars>>

\* process_generate steps 2-3 (always) and process_single_image lines 80-82
\* (only with save_tex; "skip" is a run without it)
SaveSource ==
  /\ bpc = "save_tex"
  /\ \E o \in {"ok", "skip", "raise"} :
       CASE o = "ok"    -> Goto("pdflatex") /\ files' = files \cup {"tex"}
         [] o = "skip"  -> mode = "single" /\ Goto("pdflatex") /\ files' = files
         [] o = "raise" -> Return("False") /\ files' = files
  /\ UNCHANGED <<mode, doc, steps, success, results, aborted>>
  /\ UNCHANGED parseVars
  /\ UNCHANGED <<maskVars, pixelVars, workerVars>>

\* _save_segmentation_results, lines 266-310: seg.json is written, then the
\* overlay is rendered; "no_overlay" is a positive annotation without overlay
SaveSegmentation ==
  /\ mode = "segment" /\ bpc = "save_seg"
  /\ \E o \in {"ok", "no_overlay", "raise"} :
       CASE o = "ok"         -> Goto("pdflatex") /\ files' = files \cup {"seg_json"}
         [] o = "no_overlay" -> Return("True") /\ files' = files \cup {"seg_json"}
         [] o = "raise"      -> Return("False") /\ files' = files
  /\ UNCHANGED <<mode, doc, steps, success, results, aborted>>
  /\ UNCHANGED parseVars
  /\ UNCHANGED <<maskVars, pixelVars, workerVars>>

\* the compile request returns ok to its caller, which goes on accordingly
CompileReturns(ok) ==
  /\ success' = (IF ok THEN "True" ELSE "False")
  /\ CASE mode = "generate" -> Goto(IF ok THEN "metadata" ELSE "save_failed")
       [] mode = "single"   -> Goto(IF ok THEN "parse" ELSE "save_failed")
       [] mode = "segment"  -> Return("True")

PdflatexOutcomes ==
  {"exit0_pdf", "nonzero_pdf", "exit0_nopdf", "nonzero_nopdf", "timeout", "notfound", "oserror"}

\* subprocess.run(["pdflatex", ...]) without check=True: only the PDF file is
\* looked at; an exception other than TimeoutExpired and FileNotFoundError
\* leaves the compile request and is caught by the caller's guard
Pdflatex ==
  /\ bpc = "pdflatex"
  /\ \E o \in PdflatexOutcomes :
       /\ steps' = Append(steps, <<"pdflatex", o>>)
       /\ CASE o \in {"exit0_pdf", "nonzero_pdf"} -> Goto("pdftoppm") /\ success' = success
            [] o = "oserror" -> Return("False") /\ success' = "raised"
            [] OTHER -> CompileReturns(FALSE)
  /\ UNCHANGED <<mode, doc, files, results, aborted>>
  /\ UNCHANGED parseVars
  /\ UNCHANGED <<maskVars, pixelVars, workerVars>>

RasterOutcomes == {"exit0_png", "exit0_nopng", "nonzero", "timeout", "notfound"}

\* subprocess.run(["pdftoppm", ...], check=True): its failure is swallowed
Pdftoppm ==
  /\ bpc = "pdftoppm"
  /\ \E o \in RasterOutcomes :
       /\ steps' = Append(steps, <<"pdftoppm", o>>)
       /\ IF o = "exit0_png"
          THEN CompileReturns(TRUE) /\ files' = files \cup {"png"}
          ELSE Goto("convert") /\ success' = success /\ files' = files
  /\ UNCHANGED <<mode, doc, results, aborted>>
  /\ UNCHANGED parseVars
  /\ UNCHANGED <<maskVars, pixelVars, workerVars>>

\* subprocess.run(["convert", ...], check=True), run when pdftoppm left no PNG
Convert ==
  /\ bpc = "convert"
  /\ \E o \in RasterOutcomes :
       /\ steps' = Append(steps, <<"convert", o>>)
       /\ IF o = "exit0_png"
          THEN CompileReturns(TRUE) /\ files' = files \cup {"png"}
          ELSE CompileReturns(FALSE) /\ files' = files
  /\ UNCHANGED <<mode, doc, results, aborted>>
  /\ UNCHANGED parseVars
  /\ UNCHANGED <<maskVars, pixelVars, workerVars>>

\* save_failed_tikz, then return False
SaveFailed ==
  /\ bpc = "save_failed"
  /\ \E o \in {"ok", "raise"} :
       /\ files' = (IF o = "ok" THEN files \cup {"failed_tex"} ELSE files)
       /\ Return("False")
  /\ UNCHANGED <<mode, doc, steps, success, results, aborted>>
  /\ UNCHANGED parseVars
  /\ UNCHANGED <<maskVars, pixelVars, workerVars>>

\* process_generate steps 5-6: img.json
SaveMetadata ==
  /\ mode = "generate" /\ bpc = "metadata"
  /\ \E o \in {"ok", "raise"} :
       IF o = "ok" THEN Return("True") /\ files' = files \cup {"json"}
       ELSE Return("False") /\ files' = files
  /\ UNCHANGED <<mode, doc, steps, success, results, aborted>>
  /\ UNCHANGED parseVars
  /\ UNCHANGED <<maskVars, pixelVars, workerVars>>

\* process_single_image, line 92: parse_tikz_elements(tikz_code)
Parse ==
  /\ mode = "single" /\ bpc = "parse"
  /\ \E o \in {"ok", "raise"} : IF o = "ok" THEN Goto("save_coords") ELSE Return("False")
  /\ UNCHANGED <<mode, doc, files, steps, success, results, aborted>>
  /\ UNCHANGED parseVars
  /\ UNCHANGED <<maskVars, pixelVars, workerVars>>

\* process_single_image, lines 95-107: save_segmentation writes *_coords.json
SaveCoords ==
  /\ mode = "single" /\ bpc = "save_coords"
  /\ \E o \in {"ok", "raise"} :
       IF o = "ok" THEN Goto("masks") /\ files' = files \cup {"coords_json"}
       ELSE Return("False") /\ files' = files
  /\ UNCHANGED <<mode, doc, steps, success, results, aborted>>
  /\ UNCHANGED parseVars
  /\ UNCHANGED <<maskVars, pixelVars, workerVars>>

\* process_single_image, lines 110-163; "skip" is a run without masks
GenerateMasks ==
  /\ mode = "single" /\ bpc = "masks"
  /\ \E o \in {"ok", "skip", "raise"} :
       CASE o = "ok"    -> Return("True") /\ files' = files \cup {"mask", "combinations_json"}
         [] o = "skip"  -> Return("True") /\ files' = files
         [] o = "raise" -> Return("False") /\ files' = files
  /\ UNCHANGED <<mode, doc, steps, success, results, aborted>>
  /\ UNCHANGED parseVars
  /\ UNCHANGED <<maskVars, pixelVars, workerVars>>

\* the batch loops call the per-document function without a guard: a boolean
\* is counted and the loop goes on, an exception ends the run
LoopNext ==
  /\ bpc = "returned"
  /\ IF ret = "raise"
     THEN /\ aborted' = TRUE /\ bpc' = "aborted"
          /\ UNCHANGED <<doc, ret, files, steps, success, results>>
     ELSE /\ results' = Append(results, ret)
          /\ aborted' = aborted
          /\ IF doc < MaxDocs
             THEN /\ doc' = doc + 1 /\ bpc' = FirstStep(mode) /\ ret' = "none"
                  /\ files' = {} /\ steps' = <<>> /\ success' = "none"
             ELSE /\ bpc' = "finished"
                  /\ UNCHANGED <<doc, ret, files, steps, success>>
  /\ UNCHANGED mode
  /\ UNCHANGED parseVars
  /\ UNCHANGED <<maskVars, pixelVars, workerVars>>

NextBatch ==
  \/ Mkdir
  \/ SkipDirectory
  \/ CheckExisting
  \/ LoadSource
  \/ Vision
  \/ SaveSource
  \/ SaveSegmentation
  \/ Pdflatex
  \/ Pdftoppm
  \/ Convert
  \/ SaveFailed
  \/ SaveMetadata
  \/ Parse
  \/ SaveCoords
  \/ GenerateMasks
  \/ LoopNext

SpecBatch == InitBatch /\ [][NextBatch]_vars

(***************************************************************************)
(* Two calls of a per-document function that run at the same time, as a    *)
(* batch loop that starts its calls in parallel would run them:            *)
(* process_generate (driver "generate") or process_single_image (driver    *)
(* "single", with save_tex and masks), on two different documents with the *)
(* indexes the loop gives them.  A call is the sequence of its file        *)
(* operations and tool runs, and the steps of the two calls interleave in  *)
(* any order.  The file writes succeed (their failures are part of         *)
(* SpecBatch); pdflatex, pdftoppm and convert succeed or fail.  A path is  *)
(* the sequence of its components, a file name the sequence of the texts   *)
(* it is formatted from.                                                   *)
(***************************************************************************)
Workers == {1, 2}

Drivers == {"generate", "single"}

\* Path(image_path).stem of the two input images (a.png and a.jpg share one)
Stems == {<<"a">>, <<"b">>}

\* the values of i+1 in "for i, image_path in enumerate(image_paths)"
IndexPairs == {<<1, 2>>, <<2, 12>>}

TempNames == {"tmp1", "tmp2"}

JobOf(driver, index, stem, w) ==
  [driver |-> driver, index |-> index, stem |-> stem, code |-> <<"tikz", w>>]

InitWorkers ==
  /\ ParseIdle
  /\ BatchIdle
  /\ MaskIdle
  /\ PixelIdle
  /\ \E d \in Drivers, ix \in IndexPairs, s1 \in Stems, s2 \in Stems :
       /\ job = <<JobOf(d, ix[1], s1, 1), JobOf(d, ix[2], s2, 2)>>
       /\ wpc = IF d = "generate" THEN <<"mkdir", "mkdir">> ELSE <<"save_tex", "save_tex">>
  /\ fs = {}
  /\ tmpdir = << <<>>, <<>> >>
  /\ trace = << <<>>, <<>> >>

Numeral(d) == <<"0", "1", "2", "3", "4", "5", "6", "7", "8", "9">>[d + 1]

\* f"{index:03d}"
RECURSIVE Pad3(_)
Pad3(index) ==
  IF index < 1000
  THEN <<Numeral(index \div 100), Numeral((index \div 10) % 10), Numeral(index % 10)>>
  ELSE Pad3(index \div 10) \o <<Numeral(index % 10)>>

\* f"generated_{image_index:03d}" and f"generated_{index:03d}_{image_name}"
BaseName(j) ==
  <<"generated_">> \o Pad3(j.index) \o (IF j.driver = "single" THEN <<"_">> \o j.stem ELSE <<>>)

\* output_path / "img.tex" and str(output_png).replace('.png', '.tex')
OutFile(j, name) ==
  IF j.driver = "generate"
  THEN <<"out", BaseName(j), <<"img", name>>>>
  ELSE <<"out", BaseName(j) \o <<name>>>>

\* os.path.join(tmpdir, name)
TempFile(t, name) == <<"tmp", t, name>>

Write(disk, path, content) == {f \in disk : f[1] # path} \cup {<<path, content>>}

Read(disk, path) ==
  IF \E f \in disk : f[1] = path THEN (CHOOSE f \in disk : f[1] = path)[2] ELSE <<"nothing">>

\* leaving the with block removes the directory and what is in it
RemoveTree(disk, t) == {f \in disk : ~(f[1][1] = "tmp" /\ f[1][2] = t)}

\* what step s of the call for job j does to the disk; t is the temporary
\* directory the call holds and o what the tool did
Effect(j, s, o, disk, t) ==
  CASE s = "copy_original" -> Write(disk, <<"out", BaseName(j), <<"original.png">>>>,
                                    <<"image", j.index>>)
    [] s = "save_tex" -> Write(disk, OutFile(j, ".tex"), j.code)
    [] s = "write_tex" -> Write(disk, TempFile(t, "geometry.tex"), <<"latex", j.code>>)
    [] s = "pdflatex" /\ o = "ok" ->
         Write(disk, TempFile(t, "geometry.pdf"),
               <<"pdf", Read(disk, TempFile(t, "geometry.tex"))>>)
    [] s = "pdftoppm" /\ o = "ok" ->
         Write(disk, TempFile(t, "output.png"),
               <<"png", Read(disk, TempFile(t, "geometry.pdf"))>>)
    [] s = "copy_png" -> Write(disk, OutFile(j, ".png"), Read(disk, TempFile(t, "output.png")))
    [] s = "convert" /\ o = "ok" ->
         Write(disk, OutFile(j, ".png"), <<"png", Read(disk, TempFile(t, "geometry.pdf"))>>)
    [] s = "cleanup" -> RemoveTree(disk, t)
    [] s = "save_failed" -> Write(disk, OutFile(j, "_failed.tex"), <<"latex", j.code>>)
    [] s = "metadata" -> Write(disk, OutFile(j, ".json"), <<"metadata", j.code>>)
    [] s = "save_coords" -> Write(disk, OutFile(j, "_coords.json"), <<"elements", j.code>>)
    [] s = "masks" -> Write(disk, OutFile(j, "_mask_all.png"),
                            <<"mask", j.code, Read(disk, OutFile(j, ".png"))>>)
    [] OTHER -> disk

\* the compile request of the call has produced its PNG
Compiled(tr) ==
  \E k \in 1..Len(tr) : tr[k] \in {<<"copy_png", "ok">>, <<"convert", "ok">>}

\* the step that follows step s; tr is what the call has done, s included
After(j, s, o, tr) ==
  CASE s = "mkdir" -> "copy_original"
    [] s = "copy_original" -> "save_tex"
    [] s = "save_tex" -> "mkdtemp"
    [] s = "mkdtemp" -> "write_tex"
    [] s = "write_tex" -> "pdflatex"
    [] s = "pdflatex" -> IF o = "ok" THEN "pdftoppm" ELSE "cleanup"
    [] s = "pdftoppm" -> IF o = "ok" THEN "copy_png" ELSE "convert"
    [] s = "copy_png" -> "cleanup"
    [] s = "convert" -> "cleanup"
    [] s = "cleanup" -> IF ~Compiled(tr) THEN "save_failed"
                        ELSE IF j.driver = "generate" THEN "metadata" ELSE "parse"
    [] s = "parse" -> "save_coords"
    [] s = "save_coords" -> "masks"
    [] OTHER -> "returned"

\* call w takes step s, the tool doing o
TakeStep(w, s, o) ==
  /\ wpc[w] = s
  /\ fs' = Effect(job[w], s, o, fs, tmpdir[w])
  /\ trace' = [trace EXCEPT ![w] = Append(trace[w], <<s, o>>)]
  /\ wpc' = [wpc EXCEPT ![w] = After(job[w], s, o, Append(trace[w], <<s, o>>))]
  /\ UNCHANGED job
  /\ UNCHANGED <<parseVars, batchVars, maskVars, pixelVars>>

\* what an external tool does: it leaves its output file or it does not
ToolOutcomes == {"ok", "fail"}

\* the temporary directories that exist
InUse == {tmpdir[v][1] : v \in {u \in Workers : tmpdir[u] # <<>>}}

\* a variant that works in one fixed directory
SharedDirs(used) == {"tmp1"}

\* tempfile.mkdtemp makes a directory under a name that does not exist yet
FreshDirs(used) == TempNames \ used

\* process_generate, line 60
MakeDirectory == \E w \in Workers : TakeStep(w, "mkdir", "ok") /\ UNCHANGED tmpdir

\* process_generate, lines 81-84
CopyOriginal == \E w \in Workers : TakeStep(w, "copy_original", "ok") /\ UNCHANGED tmpdir

\* process_generate, lines 88-89; process_single_image, lines 80-82
WriteSource == \E w \in Workers : TakeStep(w, "save_tex", "ok") /\ UNCHANGED tmpdir

\* compile_tikz_to_png, line 64; compile_tikz_with_coords, line 143
MakeTempDir ==
  \E w \in Workers, t \in FreshDirs(InUse) :
    /\ TakeStep(w, "mkdtemp", "ok")
    /\ tmpdir' = [tmpdir EXCEPT ![w] = <<t>>]

\* lines 68-69
WriteTexFile == \E w \in Workers : TakeStep(w, "write_tex", "ok") /\ UNCHANGED tmpdir

\* lines 72-92
RunPdflatex ==
  \E w \in Workers, o \in ToolOutcomes : TakeStep(w, "pdflatex", o) /\ UNCHANGED tmpdir

\* lines 98-105
RunPdftoppm ==
  \E w \in Workers, o \in ToolOutcomes : TakeStep(w, "pdftoppm", o) /\ UNCHANGED tmpdir

\* lines 106-108
CopyPng == \E w \in Workers : TakeStep(w, "copy_png", "ok") /\ UNCHANGED tmpdir

\* lines 113-123
RunConvert ==
  \E w \in Workers, o \in ToolOutcomes : TakeStep(w, "convert", o) /\ UNCHANGED tmpdir

\* the end of the with block, on every way out of it
RemoveTempDir ==
  \E w \in Workers :
    /\ TakeStep(w, "cleanup", "ok")
    /\ tmpdir' = [tmpdir EXCEPT ![w] = <<>>]

\* process_generate, lines 96-101; process_single_image, lines 164-170
WriteFailed == \E w \in Workers : TakeStep(w, "save_failed", "ok") /\ UNCHANGED tmpdir

\* process_generate, lines 105-133
WriteMetadata == \E w \in Workers : TakeStep(w, "metadata", "ok") /\ UNCHANGED tmpdir

\* process_single_image, line 92
ParseSource == \E w \in Workers : TakeStep(w, "parse", "ok") /\ UNCHANGED tmpdir

\* process_single_image, lines 95-107
WriteCoords == \E w \in Workers : TakeStep(w, "save_coords", "ok") /\ UNCHANGED tmpdir

\* process_single_image, lines 110-163
WriteMasks == \E w \in Workers : TakeStep(w, "masks", "ok") /\ UNCHANGED tmpdir

NextWorkers ==
  \/ MakeDirectory
  \/ CopyOriginal
  \/ WriteSource
  \/ MakeTempDir
  \/ WriteTexFile
  \/ RunPdflatex
  \/ RunPdftoppm
  \/ CopyPng
  \/ RunConvert
  \/ RemoveTempDir
  \/ WriteFailed
  \/ WriteMetadata
  \/ ParseSource
  \/ WriteCoords
  \/ WriteMasks

SpecWorkers == InitWorkers /\ [][NextWorkers]_vars

(***************************************************************************)
(* Properties                                                              *)
(***************************************************************************)
\* a signed decimal numeral: optional '+' or '-', digits, optional fraction
IsSignedDecimal(s) ==
  /\ IsFloatBody(FloatBody(s))
  /\ Head(FloatBody(s)) \in Digits
  /\ FloatBody(s)[Len(FloatBody(s))] \in Digits

CommaAt(s) == SetMin({i \in 1..Len(s) : s[i] = ","})

\* a token 'a,b' of two signed decimal numerals, and the pair it denotes
IsLiteralPair(s) ==
  /\ CountOf(s, {","}) = 1
  /\ IsSignedDecimal(Take(s, CommaAt(s) - 1))
  /\ IsSignedDecimal(Drop(s, CommaAt(s)))

LiteralPair(s) == <<FloatVal(Take(s, CommaAt(s) - 1)), FloatVal(Drop(s, CommaAt(s)))>>

\* C1: for every source text parse_tikz_elements returns its structure and
\* never raises, also when a coordinate token or the scale value is made of
\* digits, '.' and '-' without being a number.
C1_NeverRaises == pc # "raised"

\* C2: no failure inside the processing of one document leaves the
\* per-document function: it always returns a boolean, and the batch loop
\* always goes on to the next document.
C2_NoFailurePropagates == ret # "raise" /\ ~aborted

\* C3: when the compile request of a document has reported failure, the
\* per-document function has written the failing source to *_failed.tex,
\* returns False, and has written no metadata or coordinate JSON and no mask.
C3_FailedCompilePersisted ==
  (bpc = "returned" /\ success = "False") =>
    /\ "failed_tex" \in files
    /\ ret = "False"
    /\ files \cap {"json", "coords_json", "seg_json", "combinations_json", "mask"} = {}

Attempts(tools) == Cardinality({i \in 1..Len(steps) : steps[i][1] \in tools})

\* C4: within one compile request the document compile and the raster
\* conversion are each attempted at most once, and a timeout or a non-zero exit
\* of either makes the request report failure.
C4_OneAttemptHardFailure ==
  /\ Attempts({"pdflatex"}) <= 1
  /\ Attempts({"pdftoppm", "convert"}) <= 1
  /\ success = "True" =>
       \A i \in 1..Len(steps) :
         steps[i][2] \notin {"timeout", "nonzero", "nonzero_pdf", "nonzero_nopdf"}

\* C5: for every token 'a,b' of two signed decimal numerals and every symbol
\* table, resolve_coord returns exactly the pair (a, b).
C5_LiteralResolves ==
  (pc = "resolved" /\ IsLiteralPair(coord_str)) => resolved = Ok(LiteralPair(coord_str))

\* the unit suffix of a radius text, and the number before it
UnitOf(s) == IF Len(s) >= 2 /\ Drop(s, Len(s) - 2) \in UnitTexts THEN Drop(s, Len(s) - 2) ELSE <<>>

NumberOf(s) == Take(s, Len(s) - Len(UnitOf(s)))

\* a number with an optional cm/pt/mm suffix
IsLength(s) == IsSignedDecimal(NumberOf(s)) /\ Head(s) \in Digits

\* pt divides by 28.45, mm divides by 10, cm or no suffix leaves the number
LargeUnit(s) ==
  CASE UnitOf(s) = <<"p", "t">> -> RDiv(FloatVal(NumberOf(s)), Rat(2845, 100))
    [] UnitOf(s) = <<"m", "m">> -> RDiv(FloatVal(NumberOf(s)), RInt(10))
    [] OTHER -> FloatVal(NumberOf(s))

\* a statement 'draw (cx,cy) circle (r)' and the Circle it stands for
IsCircleStatement(st) ==
  st.k = "draw_circle" /\ IsLiteralPair(st.center) /\ IsLength(st.radius)

CircleOf(st) == [center |-> LiteralPair(st.center), radius |-> LargeUnit(st.radius)]

Occurrences(seq, x) == Cardinality({j \in 1..Len(seq) : seq[j] = x})

StatementsOf(code, circle) ==
  Cardinality({i \in 1..Len(code) : IsCircleStatement(code[i]) /\ CircleOf(code[i]) = circle})

\* C6: every circle statement 'draw (cx,cy) circle (r)' yields its own Circle
\* with center (cx,cy) and the radius in the large unit (pt / 28.45, mm / 10,
\* cm and no suffix unchanged): the result holds that Circle at least once for
\* each statement that stands for it.
C6_CirclePerStatement ==
  pc = "done" =>
    \A i \in 1..Len(tikz_code) :
      IsCircleStatement(tikz_code[i]) =>
        Occurrences(elements.circles, CircleOf(tikz_code[i]))
          >= StatementsOf(tikz_code, CircleOf(tikz_code[i]))

\* a radius text that is no number, with or without a unit suffix
Unparseable(s) == ~IsLength(s) /\ ~IsFloat(s)

Located(text) == resolve_coord(Strip(text), named_coords).tag = "ok"

\* C7: every circle or arc statement whose radius text, after macro
\* substitution, is no number with an optional unit suffix is still emitted,
\* with the default radius 1.0.
C7_DefaultRadiusOne ==
  pc = "done" =>
    \A i \in 1..Len(tikz_code) :
      /\ ( /\ tikz_code[i].k = "draw_circle"
           /\ Located(tikz_code[i].center)
           /\ Unparseable(resolve_macro(tikz_code[i].radius, macros)) )
         => \E j \in 1..Len(elements.circles) :
              /\ elements.circles[j].center = resolve_coord(Strip(tikz_code[i].center), named_coords).v
              /\ elements.circles[j].radius = RInt(1)
      /\ ( /\ tikz_code[i].k \in {"arc", "arc_opts"}
           /\ Located(tikz_code[i].start)
           /\ Unparseable(resolve_macro(tikz_code[i].radius, macros)) )
         => \E j \in 1..Len(elements.arcs) :
              /\ elements.arcs[j].radius = RInt(1)
              /\ elements.arcs[j].start_angle = FloatVal(tikz_code[i].sa)

\* the point list in the order fill statements first, filldraw statements next
FillThenFilldraw(code, table) ==
  PointPass(code, {"filldraw"}, 1, table, PointPass(code, {"fill"}, 1, table, Ok(<<>>)))

\* C8: no two Point records of the result have the same position rounded to
\* 3 decimals, and of the points that round to the same key the first one in
\* extraction order, fill statements before filldraw statements, is the one kept.
C8_FirstOfEachKeyKept ==
  pc = "done" =>
    /\ \A i, j \in 1..Len(elements.points) :
         i # j => pos_key(elements.points[i].position) # pos_key(elements.points[j].position)
    /\ elements.points = unique_points(FillThenFilldraw(tikz_code, named_coords).v)

\* Euclidean length at least 0.3, on the squares
AtLeastMinLength(line) == RLeq(Rat(9, 100), Dist2(line.start, line.end))

\* C9: every segment of the final line list has length at least 0.3, and the
\* filter keeps every extracted segment of length at least 0.3 (and nothing
\* else), in order.
C9_ShortLinesFiltered ==
  /\ [](pc \in {"relationships", "done"} =>
          \A j \in 1..Len(elements.lines) : AtLeastMinLength(elements.lines[j]))
  /\ [][pc = "filter" => elements'.lines = SelectSeq(elements.lines, AtLeastMinLength)]_vars

\* the segment of length 0.29 is dropped and the one of length 0.31 is kept
C9_Witness ==
  /\ pc = "done"
  /\ Len(tikz_code) = 2
  /\ tikz_code[1].k = "draw_path" /\ tikz_code[2].k = "draw_path"
  /\ tikz_code[1].coords[2] = <<"0", ".", "2", "9", ",", "0">>
  /\ tikz_code[2].coords[2] = <<"0", ".", "3", "1", ",", "0">>
  /\ elements.lines = <<[start |-> <<RInt(0), RInt(0)>>, end |-> <<Rat(31, 100), RInt(0)>>]>>

\* point i (1-based) is recorded as lying on circle j
OnCircleRecorded(i, j) ==
  \E k \in 1..Len(elements.relationships.points_on_circles) :
    /\ elements.relationships.points_on_circles[k].point_idx = i - 1
    /\ elements.relationships.points_on_circles[k].circle_idx = j - 1

\* the distance of point i to the center of circle j is factor times the radius
AtDistance(i, j, factor) ==
  /\ elements.circles[j].radius.n >= 0
  /\ Dist2(elements.points[i].position, elements.circles[j].center)
       = RSq(RMul(factor, elements.circles[j].radius))

\* C10 as stated: at tolerance 0.15, for every point and every circle, a point
\* at distance radius is recorded on the circle and a point at distance
\* 1.3 * radius is not.
C10_EveryCircle ==
  pc = "inferred" =>
    \A i \in 1..Len(elements.points), j \in 1..Len(elements.circles) :
      /\ AtDistance(i, j, RInt(1)) => OnCircleRecorded(i, j)
      /\ AtDistance(i, j, Rat(13, 10)) => ~OnCircleRecorded(i, j)

\* C10: at tolerance 0.15, for every point and every circle of positive
\* radius, a point at distance radius is recorded on the circle; for every
\* circle, a point at distance 1.3 * radius is not recorded on it.
C10_PositiveRadius ==
  pc = "inferred" =>
    \A i \in 1..Len(elements.points), j \in 1..Len(elements.circles) :
      /\ (elements.circles[j].radius.n > 0 /\ AtDistance(i, j, RInt(1)))
           => OnCircleRecorded(i, j)
      /\ AtDistance(i, j, Rat(13, 10)) => ~OnCircleRecorded(i, j)

\* (0.3,0.4) is on the circle of radius 0.5 and (0.39,0.52), at 1.3 times the
\* radius, is not
C10_Witness ==
  /\ pc = "inferred"
  /\ Len(elements.points) = 2
  /\ elements.circles[1].radius = Rat(1, 2)
  /\ AtDistance(1, 1, RInt(1)) /\ OnCircleRecorded(1, 1)
  /\ AtDistance(2, 1, Rat(13, 10)) /\ ~OnCircleRecorded(2, 1)

\* entry k of the label dict lies within 0.01 of pos on both axes, and no
\* earlier entry does
LabelEntryOf(pos, k) ==
  /\ RLess(RAbs(RSub(labels[k].coord[1], pos[1])), Rat(1, 100))
  /\ RLess(RAbs(RSub(labels[k].coord[2], pos[2])), Rat(1, 100))
  /\ \A j \in 1..(k - 1) :
       \/ RLeq(Rat(1, 100), RAbs(RSub(labels[j].coord[1], pos[1])))
       \/ RLeq(Rat(1, 100), RAbs(RSub(labels[j].coord[2], pos[2])))

\* the position resolves to a label, and the label it resolves to
HasLabel(pos) == \E k \in 1..Len(labels) : LabelEntryOf(pos, k) /\ labels[k].label # <<>>

ResolvedLabel(pos) == labels[CHOOSE k \in 1..Len(labels) : LabelEntryOf(pos, k)].label

RangeOf(seq) == {seq[j] : j \in 1..Len(seq)}

\* the pairs <<li, k>>: relationship k records a labeled interior point on
\* drawn line li, whose endpoints both resolve to labels other than the point's
SplitPoints ==
  { g \in (1..Len(elements.lines)) \X (1..Len(elements.relationships.points_on_lines)) :
      /\ elements.relationships.points_on_lines[g[2]].line_idx = g[1] - 1
      /\ elements.relationships.points_on_lines[g[2]].position_on_line = "middle"
      /\ RLess(Rat(1, 100), elements.relationships.points_on_lines[g[2]].parameter_t)
      /\ RLess(elements.relationships.points_on_lines[g[2]].parameter_t, Rat(99, 100))
      /\ HasLabel(elements.lines[g[1]].start)
      /\ HasLabel(elements.lines[g[1]].end)
      /\ HasLabel(elements.relationships.points_on_lines[g[2]].point_pos)
      /\ ResolvedLabel(elements.relationships.points_on_lines[g[2]].point_pos)
           \notin {ResolvedLabel(elements.lines[g[1]].start), ResolvedLabel(elements.lines[g[1]].end)} }

ParentLabel(line) ==
  <<"L", "i", "n", "e", "_">> \o ResolvedLabel(line.start) \o ResolvedLabel(line.end)

\* the segment (start -> point) or (point -> end) of a split
ExpectedSegment(line, pos, first) ==
  [start        |-> IF first THEN line.start ELSE pos,
   end          |-> IF first THEN pos ELSE line.end,
   point1_label |-> ResolvedLabel(IF first THEN line.start ELSE pos),
   point2_label |-> ResolvedLabel(IF first THEN pos ELSE line.end),
   label        |-> <<"L", "i", "n", "e", "_">>
                      \o ResolvedLabel(IF first THEN line.start ELSE pos)
                      \o ResolvedLabel(IF first THEN pos ELSE line.end),
   derived_from |-> ParentLabel(line)]

ExpectedOf(g, first) ==
  ExpectedSegment(elements.lines[g[1]],
                  elements.relationships.points_on_lines[g[2]].point_pos, first)

PairLabel(poc) ==
  IF HasLabel(poc.point_pos) THEN ResolvedLabel(poc.point_pos)
  ELSE <<"P">> \o IntText(poc.point_idx)

\* the triples <<ci, k1, k2>>: relationships k1 < k2 record two points on
\* circle ci whose labels differ
ArcPoints ==
  { g \in (1..Len(elements.circles))
            \X (1..Len(elements.relationships.points_on_circles))
            \X (1..Len(elements.relationships.points_on_circles)) :
      /\ g[2] < g[3]
      /\ elements.relationships.points_on_circles[g[2]].circle_idx = g[1] - 1
      /\ elements.relationships.points_on_circles[g[3]].circle_idx = g[1] - 1
      /\ PairLabel(elements.relationships.points_on_circles[g[2]])
           # PairLabel(elements.relationships.points_on_circles[g[3]]) }

PairLabels(g) ==
  { PairLabel(elements.relationships.points_on_circles[g[2]]),
    PairLabel(elements.relationships.points_on_circles[g[3]]) }

\* the arc is one of the circle and the two labels of g
ArcOf(arc, g) ==
  /\ arc.center = elements.circles[g[1]].center
  /\ arc.radius = elements.circles[g[1]].radius
  /\ {arc.point1_label, arc.point2_label} = PairLabels(g)

SameArcs(g, h) ==
  /\ elements.circles[g[1]] = elements.circles[h[1]]
  /\ PairLabels(g) = PairLabels(h)

ArcSpan(arc) == RSub(arc.end_angle, arc.start_angle)

\* the two arcs split the same circle between the same ordered pair of labels
Complementary(inner, outer) ==
  /\ inner.arc_type = <<"i", "n", "n", "e", "r">>
  /\ outer.arc_type = <<"o", "u", "t", "e", "r">>
  /\ inner.center = outer.center
  /\ inner.radius = outer.radius
  /\ inner.point1_label = outer.point1_label
  /\ inner.point2_label = outer.point2_label
  /\ RLeq(ArcSpan(inner), RInt(180))
  /\ ArcSpan(outer) = RSub(RInt(360), ArcSpan(inner))

Labelled ==
  \/ pc \in {"line_masks", "split_masks", "arc_masks", "point_masks", "circle_masks",
             "combinations"}
  \/ (pc = "returned" /\ ret = "True")

PointLabels == {<<result.points[k].position, result.points[k].label>> : k \in 1..Len(result.points)}

\* C13: for the document that declares A = (0,0) and B = (4,0), draws (A)--(B)
\* and fills a 2pt point with a node label at A and at B, the extractor
\* yields one line from (0,0) to (4,0), two points, no circle and no arc, and
\* the labels of the two points are A and B.
C13_Scenario ==
  (tikz_code = Scenario /\ pc = "returned") =>
    /\ ret = "True"
    /\ elements.lines = << [start |-> <<RInt(0), RInt(0)>>, end |-> <<RInt(4), RInt(0)>>] >>
    /\ Len(elements.points) = 2
    /\ elements.circles = <<>>
    /\ elements.arcs = <<>>
    /\ {<<labels[k].coord, labels[k].label>> : k \in 1..Len(labels)}
         = {<< <<RInt(0), RInt(0)>>, <<"A">> >>, << <<RInt(4), RInt(0)>>, <<"B">> >>}
    /\ PointLabels = {<< <<RInt(0), RInt(0)>>, <<"A">> >>, << <<RInt(4), RInt(0)>>, <<"B">> >>}

C13_Witness == tikz_code = Scenario /\ pc = "returned" /\ Len(result.points) = 2

\* the labels that the statements of the given kind attach to position coord
AttachedAt(kind, coord) ==
  {Strip(tikz_code[i].node) :
     i \in {j \in 1..Len(tikz_code) :
              /\ tikz_code[j].k = kind
              /\ AttachedLabel(tikz_code[j].node)
              /\ LabelCoord(tikz_code[j].pos) = Ok(coord)}}

\* the names declared at position coord
DeclaredAt(coord) ==
  {Strip(tikz_code[i].name) :
     i \in {j \in 1..Len(tikz_code) :
              tikz_code[j].k = "coordinate" /\ LabelCoord(tikz_code[j].at) = Ok(coord)}}

\* the labels of the highest-priority pattern among (1) fill with attached
\* node, (2) filldraw with attached node, (3) declaration, that labels coord
PriorityLabels(coord) ==
  IF AttachedAt("fill", coord) # {} THEN AttachedAt("fill", coord)
  ELSE IF AttachedAt("filldraw", coord) # {} THEN AttachedAt("filldraw", coord)
  ELSE DeclaredAt(coord)

\* C17: when a position receives a label from more than one pattern, the
\* returned mapping holds a label of the highest-priority pattern, in the
\* order fill with node, filldraw with node, declaration, standalone node.
C17_HighestPriority ==
  Labelled =>
    \A k \in 1..Len(labels) :
      PriorityLabels(labels[k].coord) # {} => labels[k].label \in PriorityLabels(labels[k].coord)

\* a position labeled by two patterns
C17_Witness ==
  /\ Labelled
  /\ \E k \in 1..Len(labels) :
       AttachedAt("fill", labels[k].coord) # {} /\ DeclaredAt(labels[k].coord) # {}

\* the standalone labels and the unlabeled filled points of the document
StandaloneAt(i) ==
  /\ tikz_code[i].k = "node"
  /\ StandaloneLabel(tikz_code[i].label)
  /\ LabelCoord(tikz_code[i].at).tag = "ok"

UnlabeledFill(j) ==
  /\ tikz_code[j].k \in {"fill", "filldraw"}
  /\ LabelCoord(tikz_code[j].pos).tag = "ok"
  /\ PriorityLabels(LabelCoord(tikz_code[j].pos).v) = {}

PairDist2(c) == Dist2(LabelCoord(tikz_code[c[1]].at).v, LabelCoord(tikz_code[c[2]].pos).v)

\* the (label, point) pairs at distance below 0.5
Candidates ==
  {c \in (1..Len(tikz_code)) \X (1..Len(tikz_code)) :
     /\ StandaloneAt(c[1])
     /\ UnlabeledFill(c[2])
     /\ RLess(PairDist2(c), Rat(1, 4))}

Closest(c) == \A d \in Candidates : d = c \/ RLess(PairDist2(c), PairDist2(d))

\* C18: standalone labels are matched to unlabeled filled points nearest
\* first, so the closest (label, point) pair of the document is matched
\* together whatever the order of the labels in the source.
C18_ClosestPairMatched ==
  Labelled =>
    \A c \in Candidates :
      Closest(c) =>
        \E k \in 1..Len(labels) :
          /\ labels[k].coord = LabelCoord(tikz_code[c[2]].pos).v
          /\ labels[k].label = tikz_code[c[1]].label

\* two standalone labels compete for one filled point
C18_Witness ==
  /\ Labelled
  /\ \E c \in Candidates : Closest(c) /\ \E d \in Candidates : d # c /\ d[2] = c[2]

ZeroPrimitives ==
  elements.circles = <<>> /\ elements.lines = <<>> /\ elements.points = <<>> /\ elements.arcs = <<>>

\* C19: when the extractor yields no circle, line, point or arc, no mask
\* file is written (not even the combined one), the result is empty and the
\* document is reported as succeeded.
C19_NoElementsSucceeds ==
  (pc = "returned" /\ "coords_json" \in files /\ ZeroPrimitives) =>
    /\ masks = {}
    /\ mask_files = {}
    /\ result = EmptyResult
    /\ ret = "True"

C19_Witness ==
  /\ pc = "returned"
  /\ "coords_json" \in files
  /\ ZeroPrimitives
  /\ tikz_code # <<>>
  /\ ret = "True"

\* C20: the per-entity result has one entry and one mask file for every
\* drawn line, split line, derived arc, point and circle: no entry is
\* replaced by the entry of another entity with the same label.
C20_OneEntryPerEntity ==
  (pc = "returned" /\ ret = "True") =>
    /\ Len(result.lines) = Len(elements.lines) + Len(split_lines)
    /\ Len(result.arcs) = Len(derived_arcs)
    /\ Len(result.points) = Len(elements.points)
    /\ Len(result.circles) = Len(elements.circles)
    /\ Cardinality(mask_files) =
         Cardinality(masks) + Len(elements.lines) + Len(split_lines) + Len(derived_arcs)
           + Len(elements.points) + Len(elements.circles)

C20_Witness ==
  /\ pc = "returned"
  /\ ret = "True"
  /\ Len(elements.circles) + Len(elements.points) + Len(elements.lines) >= 2
  /\ C20_OneEntryPerEntity

(***************************************************************************)
(* The properties of the coordinate mapper, checked under SpecPixel.       *)
(***************************************************************************)
Mapped == pc = "pixel"

FallbackScenario ==
  Mapped /\ bbox = <<>> /\ image_size = <<400, 200>> /\ elements.scale = RInt(1)

\* C14: in fallback mode on a 400x200 image with scale 1, the pixel of
\* A = (0,0) is the centre of the image, (200, 100), at every resolution, and
\* the pixel of B = (4,0) lies strictly right of it, at
\* 200 + 4 * 28.45 * dpi / 72.
C14_FallbackCentre ==
  FallbackScenario =>
    /\ tikz_coord = <<RInt(0), RInt(0)>> => pixel = <<RInt(200), RInt(100)>>
    /\ tikz_coord = <<RInt(4), RInt(0)>> =>
         /\ RLess(RInt(200), pixel[1])
         /\ pixel[1] = RAdd(RInt(200), Rat(4 * 569 * dpi, 20 * 72))
         /\ pixel[2] = RInt(100)

C14_Witness == FallbackScenario /\ tikz_coord = <<RInt(0), RInt(0)>> /\ pixel[1] = RInt(200)

\* C14 as stated: in fallback mode on a 400x200 image with scale 1 the pixel
\* of A = (0,0) lies strictly left of the centre (pixel_x < 200) and the
\* pixel of B = (4,0) strictly right of it (pixel_x > 200).
C14_LeftOfCentre ==
  FallbackScenario =>
    /\ tikz_coord = <<RInt(0), RInt(0)>> => RLess(pixel[1], RInt(200))
    /\ tikz_coord = <<RInt(4), RInt(0)>> => RLess(RInt(200), pixel[1])

\* the coordinate in pt: x * scale * 28.45
InPt(k) == RMul(RMul(tikz_coord[k], elements.scale), Rat(569, 20))

Between(low, x, high) == RLeq(low, x) /\ RLeq(x, high)

InsideBox(b) ==
  Between(b.min_x, InPt(1), b.max_x) /\ Between(b.min_y, InPt(2), b.max_y)

\* 10pt in pixels along an axis of the image
TenPt(extent, low, high) == RDiv(RInt(10 * extent), RAdd(RSub(high, low), RInt(20)))

BoxFormula(b) ==
  /\ pixel[1] = RDiv(RMul(RAdd(RSub(InPt(1), b.min_x), RInt(10)), RInt(image_size[1])),
                     RAdd(RSub(b.max_x, b.min_x), RInt(20)))
  /\ pixel[2] = RSub(RInt(image_size[2]),
                     RDiv(RMul(RAdd(RSub(InPt(2), b.min_y), RInt(10)), RInt(image_size[2])),
                          RAdd(RSub(b.max_y, b.min_y), RInt(20))))

BoxCorners(b) ==
  /\ (InPt(1) = b.min_x /\ InPt(2) = b.min_y) =>
       /\ pixel[1] = TenPt(image_size[1], b.min_x, b.max_x)
       /\ pixel[2] = RSub(RInt(image_size[2]), TenPt(image_size[2], b.min_y, b.max_y))
  /\ (InPt(1) = b.max_x /\ InPt(2) = b.max_y) =>
       /\ pixel[1] = RSub(RInt(image_size[1]), TenPt(image_size[1], b.min_x, b.max_x))
       /\ pixel[2] = TenPt(image_size[2], b.min_y, b.max_y)

\* C15: with a bounding box, (x,y) maps to
\* pixel_x = (x*scale*28.45 - min_x + 10) * W / (bbox_width + 20) and
\* pixel_y = H - (y*scale*28.45 - min_y + 10) * H / (bbox_height + 20),
\* whatever the dpi; the lower-left corner of the box maps 10pt inside the
\* bottom-left corner of the image, the upper-right corner 10pt inside the
\* top-right corner, and a coordinate inside the box maps inside the image.
C15_BoxMapping ==
  (Mapped /\ bbox # <<>>) =>
    /\ BoxFormula(bbox[1])
    /\ BoxCorners(bbox[1])
    /\ InsideBox(bbox[1]) =>
         /\ Between(RInt(0), pixel[1], RInt(image_size[1]))
         /\ Between(RInt(0), pixel[2], RInt(image_size[2]))

\* the upper-right corner of a bounding box has been mapped
C15_Witness ==
  /\ Mapped
  /\ bbox # <<>>
  /\ InPt(1) = bbox[1].max_x
  /\ InPt(2) = bbox[1].max_y
  /\ RLess(bbox[1].min_y, bbox[1].max_y)
  /\ dpi = 300

\* C16: when the mapper runs without a bounding box the caller can tell so
\* from what it gets back: no mapping with a bounding box returns the same
\* value for the same image.
C16_FallbackObservable ==
  (Mapped /\ bbox = <<>>) =>
    \A c \in PixelCoords, b \in BoxPool :
      tikz_to_pixel_coords(c, elements.scale, <<b>>, image_size, dpi) # pixel

C16_Witness == Mapped /\ bbox = <<>> /\ tikz_coord # <<RInt(0), RInt(0)>>

(***************************************************************************)
(* The records of compute_geometric_relationships, checked under SpecInfer.*)
(***************************************************************************)
\* |distance - radius| < radius * tolerance, on the square of the distance:
\* radius * (1 - tolerance) < distance < radius * (1 + tolerance)
CircleTest(pos, circle) ==
  /\ RLess(RInt(0), circle.radius)
  /\ RLess(RSq(RMul(circle.radius, Rat(85, 100))), Dist2(pos, circle.center))
  /\ RLess(Dist2(pos, circle.center), RSq(RMul(circle.radius, Rat(115, 100))))

CircleRecordsOf(i, j) ==
  {k \in 1..Len(elements.relationships.points_on_circles) :
     /\ elements.relationships.points_on_circles[k].point_idx = i - 1
     /\ elements.relationships.points_on_circles[k].circle_idx = j - 1}

CircleEvidence(rec) ==
  /\ rec.point_idx \in 0..(Len(elements.points) - 1)
  /\ rec.circle_idx \in 0..(Len(elements.circles) - 1)
  /\ rec.distance_to_center2
       = Dist2(elements.points[rec.point_idx + 1].position,
               elements.circles[rec.circle_idx + 1].center)
  /\ rec.circle_radius = elements.circles[rec.circle_idx + 1].radius

\* C23: points_on_circles holds exactly one record for each (point, circle)
\* pair with |distance - radius| < radius * tolerance and none for any other
\* pair; a record carries the two indexes, the distance and the radius, and a
\* point that passes the test for several circles has one record per circle.
C23_OneRecordPerMatch ==
  pc = "inferred" =>
    /\ \A i \in 1..Len(elements.points), j \in 1..Len(elements.circles) :
         Cardinality(CircleRecordsOf(i, j))
           = IF CircleTest(elements.points[i].position, elements.circles[j]) THEN 1 ELSE 0
    /\ \A k \in 1..Len(elements.relationships.points_on_circles) :
         CircleEvidence(elements.relationships.points_on_circles[k])

\* a point on two circles, next to a point on neither
C23_Witness ==
  /\ pc = "inferred"
  /\ Len(elements.circles) = 2
  /\ Len(elements.points) = 2
  /\ CircleRecordsOf(1, 1) # {} /\ CircleRecordsOf(1, 2) # {}
  /\ CircleRecordsOf(2, 1) = {} /\ CircleRecordsOf(2, 2) = {}

\* the projection parameter of pos on the line: ((pos - start) . (end - start)) / |end - start|^2
Projection(pos, line) ==
  RDiv(RAdd(RMul(RSub(pos[1], line.start[1]), RSub(line.end[1], line.start[1])),
            RMul(RSub(pos[2], line.start[2]), RSub(line.end[2], line.start[2]))),
       RAdd(RSq(RSub(line.end[1], line.start[1])), RSq(RSub(line.end[2], line.start[2]))))

Clamp(t) == IF RLess(t, RInt(0)) THEN RInt(0) ELSE IF RLess(RInt(1), t) THEN RInt(1) ELSE t

\* the point start + t * (end - start)
PointAt(line, t) ==
  << RAdd(line.start[1], RMul(t, RSub(line.end[1], line.start[1]))),
     RAdd(line.start[2], RMul(t, RSub(line.end[2], line.start[2]))) >>

\* the length exceeds 1e-6, on its square
ExceedsMicro(len2) ==
  RLeq(RInt(1), len2) \/ RLess(Rat(1, 1000000), RMul(len2, RInt(1000000)))

\* the distance from pos to its closest point on the segment is less than
\* segment_length * tolerance, on the squares
LineTest(pos, line) ==
  /\ line.start # line.end
  /\ ExceedsMicro(Dist2(line.start, line.end))
  /\ RLess(Dist2(pos, PointAt(line, Clamp(Projection(pos, line)))),
           RMul(Dist2(line.start, line.end), RSq(Rat(15, 100))))

LineRecordsOf(i, j) ==
  {k \in 1..Len(elements.relationships.points_on_lines) :
     /\ elements.relationships.points_on_lines[k].point_idx = i - 1
     /\ elements.relationships.points_on_lines[k].line_idx = j - 1}

C25_PositionOnLine ==
  pc = "inferred" =>
    \A k \in 1..Len(elements.relationships.points_on_lines) :
      /\ elements.relationships.points_on_lines[k].parameter_t
           = Projection(elements.relationships.points_on_lines[k].point_pos,
                        [start |-> elements.relationships.points_on_lines[k].line_start,
                         end   |-> elements.relationships.points_on_lines[k].line_end])
      /\ elements.relationships.points_on_lines[k].position_on_line
           = IF RLess(elements.relationships.points_on_lines[k].parameter_t, Rat(15, 100))
             THEN "start"
             ELSE IF RLess(Rat(85, 100), elements.relationships.points_on_lines[k].parameter_t)
             THEN "end"
             ELSE "middle"

\* records with t = -0.1 ('start') and t = 1.1 ('end'), and a 'middle' one
C25_Witness ==
  /\ pc = "inferred"
  /\ \E k \in 1..Len(elements.relationships.points_on_lines) :
       /\ elements.relationships.points_on_lines[k].parameter_t = Rat(-1, 10)
       /\ elements.relationships.points_on_lines[k].position_on_line = "start"
  /\ \E k \in 1..Len(elements.relationships.points_on_lines) :
       /\ elements.relationships.points_on_lines[k].parameter_t = Rat(11, 10)
       /\ elements.relationships.points_on_lines[k].position_on_line = "end"

(***************************************************************************)
(* The segments of the draw paths, checked under Spec on the line list as  *)
(* the line extraction leaves it (pc = "points"), before the short-segment *)
(* filter.                                                                 *)
(***************************************************************************)
\* the draw path of statement i has resolved the coordinates rp: the segments
\* between consecutive coordinates, and the closing one of a 'cycle' path
ConsecutiveSegments(rp) ==
  [j \in 1..(Len(rp) - 1) |-> [start |-> rp[j], end |-> rp[j + 1]]]

ClosingSegment(rp, cycle) ==
  IF cycle /\ Len(rp) >= 2 THEN <<[start |-> rp[Len(rp)], end |-> rp[1]]>> ELSE <<>>

ResolvedOf(stmt, table) == ResolvePoints(stmt.coords, 1, table, Ok(<<>>)).v

RECURSIVE SegmentsPerPath(_, _, _)
SegmentsPerPath(code, i, table) ==
  IF i > Len(code) THEN <<>>
  ELSE (IF code[i].k = "draw_path"
        THEN ConsecutiveSegments(ResolvedOf(code[i], table))
               \o ClosingSegment(ResolvedOf(code[i], table), code[i].cycle)
        ELSE <<>>)
       \o SegmentsPerPath(code, i + 1, table)

\* C26: a draw path with n resolved coordinates yields, before the short-segment
\* filter, the n-1 segments between consecutive coordinates in path order, and
\* one more segment from the last coordinate back to the first when the
\* statement closes with 'cycle'.
C26_PathSegments ==
  pc = "points" => elements.lines = SegmentsPerPath(tikz_code, 1, named_coords)

\* a 'cycle' path with exactly two resolved coordinates has gone through the
\* line extraction
C26_Witness ==
  /\ pc = "points"
  /\ \E i \in 1..Len(tikz_code) :
       /\ tikz_code[i].k = "draw_path"
       /\ tikz_code[i].cycle
       /\ Len(ResolvedOf(tikz_code[i], named_coords)) = 2

\* coordinate j of the path resolves
Resolves(stmt, j, table) == resolve_coord(stmt.coords[j], table).tag = "ok"

CoordAt(stmt, j, table) == resolve_coord(stmt.coords[j], table).v

\* the segment joins coordinates j and j+1 of the path, or the last and the
\* first of a 'cycle' path
JoinsAdjacent(seg, stmt, table) ==
  \/ \E j \in 1..(Len(stmt.coords) - 1) :
       /\ Resolves(stmt, j, table) /\ Resolves(stmt, j + 1, table)
       /\ seg = [start |-> CoordAt(stmt, j, table), end |-> CoordAt(stmt, j + 1, table)]
  \/ /\ stmt.cycle
     /\ Len(stmt.coords) >= 2
     /\ Resolves(stmt, Len(stmt.coords), table) /\ Resolves(stmt, 1, table)
     /\ seg = [start |-> CoordAt(stmt, Len(stmt.coords), table),
               end |-> CoordAt(stmt, 1, table)]

\* C27: every segment the line extraction emits joins two coordinates that are
\* adjacent in a draw path of the document (or the last and the first of a
\* 'cycle' path); no segment joins the two resolved neighbours of a coordinate
\* that could not be resolved.
C27_OnlyAdjacentJoined ==
  pc = "points" =>
    \A l \in 1..Len(elements.lines) :
      \E i \in 1..Len(tikz_code) :
        /\ tikz_code[i].k = "draw_path"
        /\ JoinsAdjacent(elements.lines[l], tikz_code[i], named_coords)

\* a path with an unresolved coordinate between two resolved ones has gone
\* through the line extraction
C27_Witness ==
  /\ pc = "points"
  /\ \E i \in 1..Len(tikz_code) :
       /\ tikz_code[i].k = "draw_path"
       /\ \E j \in 2..(Len(tikz_code[i].coords) - 1) :
            /\ ~Resolves(tikz_code[i], j, named_coords)
            /\ Resolves(tikz_code[i], j - 1, named_coords)
            /\ Resolves(tikz_code[i], j + 1, named_coords)

(***************************************************************************)
(* The relationship records against the final lists, checked under         *)
(* SpecMasks.                                                              *)
(***************************************************************************)
\* record rec of points_on_circles names a point and a circle of the lists and
\* repeats their position, center and radius
CircleRecordFits(rec) ==
  /\ rec.point_idx \in 0..(Len(elements.points) - 1)
  /\ rec.circle_idx \in 0..(Len(elements.circles) - 1)
  /\ rec.point_pos = elements.points[rec.point_idx + 1].position
  /\ rec.circle_center = elements.circles[rec.circle_idx + 1].center
  /\ rec.circle_radius = elements.circles[rec.circle_idx + 1].radius

\* record rec of points_on_lines names a point and a line of the lists and
\* repeats their position and endpoints
LineRecordFits(rec) ==
  /\ rec.point_idx \in 0..(Len(elements.points) - 1)
  /\ rec.line_idx \in 0..(Len(elements.lines) - 1)
  /\ rec.point_pos = elements.points[rec.point_idx + 1].position
  /\ rec.line_start = elements.lines[rec.line_idx + 1].start
  /\ rec.line_end = elements.lines[rec.line_idx + 1].end

\* C28: the relationships are computed on the final lists, after the point
\* deduplication and the short-segment filter: in every record point_idx,
\* circle_idx and line_idx are valid indexes into the lists of the result,
\* point_pos is the position of the indexed point, and the recorded center,
\* radius and endpoints are those of the indexed circle or line.
C28_RecordsIndexFinalLists ==
  /\ \A k \in 1..Len(elements.relationships.points_on_circles) :
       CircleRecordFits(elements.relationships.points_on_circles[k])
  /\ \A k \in 1..Len(elements.relationships.points_on_lines) :
       LineRecordFits(elements.relationships.points_on_lines[k])

\* the tick mark and the repeated point are gone, and the point extracted
\* fourth is recorded as point 1 at the end of line 0, the line extracted second
C28_Witness ==
  /\ pc = "done"
  /\ tikz_code = TickMarks
  /\ Len(LinePass(tikz_code, 1, named_coords, Ok(<<>>)).v) = 2
  /\ Len(elements.lines) = 1
  /\ Len(elements.points) = 2
  /\ \E k \in 1..Len(elements.relationships.points_on_lines) :
       /\ elements.relationships.points_on_lines[k].point_idx = 1
       /\ elements.relationships.points_on_lines[k].line_idx = 0
       /\ elements.relationships.points_on_lines[k].position_on_line = "end"

(***************************************************************************)
(* The arcs of the two arc forms, checked under Spec.                      *)
(***************************************************************************)
\* the statement is an arc in one of the two forms that gives a start point
\* that resolves, two numbers as angles and a number with an optional unit as
\* radius
ArcGiven(stmt) ==
  /\ stmt.k \in {"arc", "arc_opts"}
  /\ Located(stmt.start)
  /\ IsFloat(stmt.sa) /\ IsFloat(stmt.ea)
  /\ ~Unparseable(Strip(stmt.radius))
  /\ LengthOr(Strip(stmt.radius), DefaultRadius).tag = "ok"

GivenRadius(stmt) == LengthOr(Strip(stmt.radius), DefaultRadius).v

\* S - r*(cos a, sin a) for a = 0, 90, 180, 270 (mod 360): S shifted by r along
\* -x, -y, +x, +y
ShiftedCenter(S, r, a) ==
  CASE Quadrant(a) = 0 -> <<RSub(S[1], r), S[2]>>
    [] Quadrant(a) = 90 -> <<S[1], RSub(S[2], r)>>
    [] Quadrant(a) = 180 -> <<RAdd(S[1], r), S[2]>>
    [] Quadrant(a) = 270 -> <<S[1], RAdd(S[2], r)>>

ArcFromStart(stmt, S) ==
  [center      |-> ShiftedCenter(S, GivenRadius(stmt), FloatVal(stmt.sa)),
   radius      |-> GivenRadius(stmt),
   start_angle |-> FloatVal(stmt.sa),
   end_angle   |-> FloatVal(stmt.ea)]

ArcEmitted(stmt) ==
  \E j \in 1..Len(elements.arcs) :
    elements.arcs[j] = ArcFromStart(stmt, resolve_coord(Strip(stmt.start), named_coords).v)

\* C30: for an arc statement in either form with resolved start point S, start
\* angle a, end angle and radius r, the result holds an Arc whose center is
\* S - r*(cos a, sin a), whose radius is r in cm, and whose start and end angles
\* are the ones given.
C30_ArcFromStart ==
  pc = "done" =>
    \A i \in 1..Len(tikz_code) : ArcGiven(tikz_code[i]) => ArcEmitted(tikz_code[i])

\* an arc of the first form with a negative start angle has been parsed
C30_Witness ==
  /\ pc = "done"
  /\ \E i \in 1..Len(tikz_code) :
       /\ tikz_code[i].k = "arc"
       /\ ArcGiven(tikz_code[i])
       /\ FloatVal(tikz_code[i].sa) = RInt(-90)

(***************************************************************************)
(* The length of the derived segments, checked under SpecMasks.            *)
(***************************************************************************)
\* C29: every segment returned by split_lines_at_labeled_points has length at
\* least 0.3, as the lines of the parse have.
C29_DerivedSegmentsLong ==
  \A k \in 1..Len(split_lines) : AtLeastMinLength(split_lines[k])

\* the line A-B of length 1 has been split at the labeled point M
C29_Witness ==
  /\ tikz_code = NearEnd
  /\ pc = "arc_masks"
  /\ Len(split_lines) = 2
  /\ split_lines[1].point1_label = <<"A">> /\ split_lines[1].point2_label = <<"M">>

(***************************************************************************)
(* The inputs of the derivation steps and of the rasterizers, checked      *)
(* under SpecMasks (and under SpecDerive).                                 *)
(***************************************************************************)
\* the primitive lists and the scale of the elements
PrimitivesOf(elems) == <<elems.circles, elems.lines, elems.points, elems.arcs, elems.scale>>

\* the steps at which compute_geometric_relationships is called
InferSteps == {"infer", "relationships"}

\* the steps at which split_lines_at_labeled_points, generate_derived_arcs and
\* the mask generators are called
DeriveSteps ==
  {"inferred", "split", "all_masks", "line_masks", "split_masks", "arc_masks", "point_masks",
   "circle_masks"}

\* C22: compute_geometric_relationships, split_lines_at_labeled_points,
\* generate_derived_arcs and the mask generators leave their inputs unchanged:
\* after any of them has run, the primitive lists, the relationship records and
\* the label dict are what they were before.
C22_InputsUnchanged ==
  [][ /\ (pc \in InferSteps => PrimitivesOf(elements') = PrimitivesOf(elements))
      /\ (pc \in DeriveSteps => elements' = elements /\ labels' = labels) ]_vars

\* the relationships have been inferred, a line has been split and the masks
\* have been drawn
C22_Witness ==
  /\ pc = "returned"
  /\ ret = "True"
  /\ elements.relationships.points_on_lines # <<>>
  /\ split_lines # <<>>
  /\ labels # <<>>
  /\ masks # {}
  /\ Len(result.lines) >= 3

(***************************************************************************)
(* Two calls at the same time, checked under SpecWorkers.                  *)
(***************************************************************************)
\* the disk after the first k-1 steps of tr, taken alone from the disk files
RECURSIVE Replay(_, _, _, _, _)
Replay(j, tr, k, disk, t) ==
  IF k > Len(tr) THEN disk
  ELSE Replay(j, tr, k + 1, Effect(j, tr[k][1], tr[k][2], disk, t), t)

\* the files call w leaves when it takes its steps alone, on an empty disk
Alone(w) == Replay(job[w], trace[w], 1, {}, tmpdir[w])

\* C21: under every interleaving of the steps of two calls on different
\* documents, the disk holds for each document what the call leaves when it
\* runs alone and nothing else, the two calls hold different temporary
\* directories, and no path is written for both documents.
C21_SameAsAlone ==
  /\ fs = Alone(1) \cup Alone(2)
  /\ \A f \in Alone(1), g \in Alone(2) : f[1] # g[1]
  /\ (tmpdir[1] # <<>> /\ tmpdir[2] # <<>>) => tmpdir[1] # tmpdir[2]

\* both calls hold a temporary directory with a PDF in it, on images of the
\* same stem
C21_Witness ==
  /\ job # <<>>
  /\ job[1].driver = "single"
  /\ job[1].stem = job[2].stem
  /\ wpc = <<"pdftoppm", "pdftoppm">>
  /\ Cardinality(fs) = 6

====
